---- MODULE Spec2Model ----
(***************************************************************************)
(* exAIma backend: registration, login, token revocation and exam scoring. *)
(*                                                                         *)
(* The hosted database is modelled by its tables: every table is a         *)
(* sequence of rows in insertion order (what a select without ORDER BY     *)
(* returns).  Services are operators computed the way the Python code      *)
(* computes them; every HTTP handler is one action.                        *)
(***************************************************************************)
EXTENDS Integers, Sequences, FiniteSets, TLC

VARIABLES
    users,      \* table users: rows [id, username, email, password_hash]
    tokens,     \* table tokens: rows [id, user_id, token, is_revoked]
    questions,  \* table questions: rows [id, exam_id, correct_option, marks]
    results,    \* table user_exam_results
    responses,  \* table user_question_responses
    now,        \* the server clock, in whole seconds (the resolution of "iat")
    submission, \* the submission an evaluation run scores: [exam_id, answers]
    resp,       \* the response the last step sent
    issued,     \* history: [token, username] of every successful login
    loggedOut,  \* history: the tokens a logout has answered 200 for
    inflight,   \* the submissions being written: request -> [stage, result, pending]
    receipts,   \* history: the bodies of the 200 responses of POST /exams/submit
    provisioned \* the tables of results and responses that exist in the store

vars == <<users, tokens, questions, results, responses, now, submission, resp, issued, loggedOut,
          inflight, receipts, provisioned>>

-----------------------------------------------------------------------------
(* Bounds of the model *)

MaxTokens == 2      \* rows of the tokens table
MaxTime == 1        \* last second of the clock
MaxResults == 1     \* rows of user_exam_results
MaxQuestions == 2   \* questions of exam 1
MaxAnswers == 2     \* answers in one submission
MaxAttempts == 2    \* results of one run of exam sessions
MaxInFlight == 2    \* submissions inside evaluate_exam at the same time
MaxMarks == 6       \* total_marks of a stored result

Usernames == {"alice", "bob"}
Emails == {"a@x", "b@x"}
Passwords == {"pw1", "pw2"}

-----------------------------------------------------------------------------
(* Python values *)

\* None where the model holds a string (selected_option of an unanswered question)
NoOption == "None"

\* None / SQL NULL in the integer column questions.marks
NullMarks == -1

\* What int() raises on a malformed identifier; no identifier is 0 or less.
ValueError == 0

\* A payload with no "sub" claim: payload.get("sub") is None
NoSub == 0

JWT_SECRET == "server-secret"

HTTP_200_OK == 200
HTTP_201_CREATED == 201
HTTP_400_BAD_REQUEST == 400
HTTP_401_UNAUTHORIZED == 401
HTTP_404_NOT_FOUND == 404
HTTP_500_INTERNAL_SERVER_ERROR == 500

NoBody == [kind |-> "none"]

\* The tables a history lookup reads besides exams and questions
ResultTables == {"user_exam_results", "user_question_responses"}

NoSubmission == [exam_id |-> "", answers |-> << >>]

Response(op, status, detail, body) ==
    [op |-> op, status |-> status, detail |-> detail, body |-> body]

-----------------------------------------------------------------------------
(* Table helpers *)

Range(s) == {s[i] : i \in DOMAIN s}

\* supabase.table(t).select("*").eq(...).execute().data is SelectSeq: the matching
\* rows, in table order

-----------------------------------------------------------------------------
(* Passwords: bcrypt.hashpw / bcrypt.checkpw. The hash is one-way: it is a     *)
(* value of another type than the password, and only checkpw relates the two. *)

hashpw(password) == [alg |-> "bcrypt", of |-> password]

checkpw(password, stored_hash) == stored_hash = hashpw(password)

-----------------------------------------------------------------------------
(* JSON web tokens: jwt.encode / jwt.decode with HS256. A token is its payload *)
(* and the key that signed it; decoding verifies the signature.                *)

jwt_encode(payload, key) ==
    [sub |-> payload.sub, username |-> payload.username, email |-> payload.email,
     iat |-> payload.iat, key |-> key]

\* Mutant: the payload is read without verifying the signature
jwt_decode_unverified(token, key) == [ok |-> TRUE, sub |-> token.sub]

\* jwt.decode(token, JWT_SECRET): the payload, or PyJWTError on a bad signature
jwt_decode(token, key) ==
    IF token.key = key
    THEN [ok |-> TRUE, sub |-> token.sub]
    ELSE [ok |-> FALSE, sub |-> NoSub]

-----------------------------------------------------------------------------
(* Store constraints declared for the tables (config.py) *)

\* users: PRIMARY KEY id, UNIQUE username, UNIQUE email. A violating insert raises.
UsersInsert(table, row) ==
    IF \E i \in DOMAIN table :
          \/ table[i].id = row.id
          \/ table[i].username = row.username
          \/ table[i].email = row.email
    THEN [ok |-> FALSE, table |-> table]
    ELSE [ok |-> TRUE, table |-> Append(table, row)]

\* Mutant: a login replaces the sessions its user already holds
TokensReplaceOwner(table, row) ==
    [ok |-> TRUE,
     table |-> Append(SelectSeq(table, LAMBDA r : r.user_id # row.user_id), row)]

\* tokens: PRIMARY KEY id, UNIQUE token. A violating insert raises.
TokensInsert(table, row) ==
    IF \E i \in DOMAIN table : table[i].id = row.id \/ table[i].token = row.token
    THEN [ok |-> FALSE, table |-> table]
    ELSE [ok |-> TRUE, table |-> Append(table, row)]

\* uuid.uuid4() for a new row: an identifier no row of the table holds
NewId(table) == Len(table) + 1

\* User.from_dict: the user without its password hash
UserOf(row) == [kind |-> "user", id |-> row.id, username |-> row.username, email |-> row.email]

-----------------------------------------------------------------------------
(* AuthService.register_user *)

UsernameExists(table, username) ==
    Len(SelectSeq(table, LAMBDA r : r.username = username)) > 0

\* Mutant: the email check is left out
EmailNeverChecked(table, email) == FALSE

EmailExists(table, email) ==
    Len(SelectSeq(table, LAMBDA r : r.email = email)) > 0

register_user(table, username, email, password) ==
    IF UsernameExists(table, username)
    THEN [status |-> HTTP_400_BAD_REQUEST, detail |-> "Username already exists",
          users |-> table, body |-> NoBody]
    ELSE IF EmailExists(table, email)
    THEN [status |-> HTTP_400_BAD_REQUEST, detail |-> "Email already exists",
          users |-> table, body |-> NoBody]
    ELSE LET user_data == [id |-> NewId(table), username |-> username, email |-> email,
                           password_hash |-> hashpw(password)]
             result == UsersInsert(table, user_data)
         IN  IF ~result.ok
             THEN [status |-> HTTP_500_INTERNAL_SERVER_ERROR, detail |-> "Error creating user",
                   users |-> table, body |-> NoBody]
             ELSE [status |-> HTTP_201_CREATED, detail |-> "",
                   users |-> result.table, body |-> UserOf(user_data)]

-----------------------------------------------------------------------------
(* AuthService.login_user *)

\* The outcome of both credential failures
InvalidCredentials(table) ==
    [status |-> HTTP_401_UNAUTHORIZED, detail |-> "Invalid credentials",
     tokens |-> table, body |-> NoBody]

\* Mutant: an unknown username gets an answer of its own
UnknownUsernameRevealed(table) ==
    [status |-> HTTP_404_NOT_FOUND, detail |-> "User not found",
     tokens |-> table, body |-> NoBody]

UnknownUsername(table) == InvalidCredentials(table)

WrongPassword(table) == InvalidCredentials(table)

login_user(utable, ttable, clock, username, password) ==
    LET user_result == SelectSeq(utable, LAMBDA r : r.username = username)
    IN  IF Len(user_result) = 0
        THEN UnknownUsername(ttable)
        ELSE LET user == user_result[1]
             IN  IF ~checkpw(password, user.password_hash)
                 THEN WrongPassword(ttable)
                 ELSE LET payload == [sub |-> user.id, username |-> user.username,
                                      email |-> user.email, iat |-> clock]
                          token == jwt_encode(payload, JWT_SECRET)
                          token_data == [id |-> NewId(ttable), user_id |-> user.id,
                                         token |-> token, is_revoked |-> FALSE]
                          ins == TokensInsert(ttable, token_data)
                      IN  IF ~ins.ok
                          THEN [status |-> HTTP_500_INTERNAL_SERVER_ERROR,
                                detail |-> "Login error", tokens |-> ttable, body |-> NoBody]
                          ELSE [status |-> HTTP_200_OK, detail |-> "", tokens |-> ins.table,
                                body |-> [kind |-> "token", access_token |-> token,
                                          token_type |-> "bearer"]]

-----------------------------------------------------------------------------
(* AuthService.logout_user *)

\* Mutant: the update revokes every token of the token's owner
RevokeEveryTokenOfOwner(table, token) ==
    [i \in DOMAIN table |->
        IF \E j \in DOMAIN table : table[j].token = token /\ table[j].user_id = table[i].user_id
        THEN [table[i] EXCEPT !.is_revoked = TRUE] ELSE table[i]]

\* tokens.update({"is_revoked": True}).eq("token", token): the table afterwards
RevokeToken(table, token) ==
    [i \in DOMAIN table |->
        IF table[i].token = token THEN [table[i] EXCEPT !.is_revoked = TRUE] ELSE table[i]]

\* Mutant: the update only matches rows not yet revoked
UpdatedActiveRows(table, token) ==
    SelectSeq(table, LAMBDA r : r.token = token /\ r.is_revoked = FALSE)

\* ... and the rows the update returns
UpdatedRows(table, token) == SelectSeq(table, LAMBDA r : r.token = token)

logout_user(table, token) ==
    IF Len(UpdatedRows(table, token)) = 0
    THEN [status |-> HTTP_404_NOT_FOUND, detail |-> "Token not found",
          tokens |-> RevokeToken(table, token)]
    ELSE [status |-> HTTP_200_OK, detail |-> "Successfully logged out",
          tokens |-> RevokeToken(table, token)]

-----------------------------------------------------------------------------
(* AuthService.get_current_user *)

\* Mutant: the select without the is_revoked filter
AnyTokenRows(table, token) == SelectSeq(table, LAMBDA r : r.token = token)

\* tokens.select("*").eq("token", token).eq("is_revoked", False)
ActiveTokenRows(table, token) ==
    SelectSeq(table, LAMBDA r : r.token = token /\ r.is_revoked = FALSE)

\* The answer when the subject claim resolves to no user
UserNotFound ==
    [status |-> HTTP_404_NOT_FOUND, detail |-> "User not found", body |-> NoBody]

get_current_user(utable, ttable, token) ==
    IF Len(ActiveTokenRows(ttable, token)) = 0
    THEN [status |-> HTTP_401_UNAUTHORIZED, detail |-> "Invalid or revoked token",
          body |-> NoBody]
    ELSE LET payload == jwt_decode(token, JWT_SECRET)
         IN  IF ~payload.ok
             THEN [status |-> HTTP_401_UNAUTHORIZED, detail |-> "Invalid token",
                   body |-> NoBody]
             ELSE IF payload.sub = NoSub
             THEN [status |-> HTTP_401_UNAUTHORIZED, detail |-> "Invalid token payload",
                   body |-> NoBody]
             ELSE LET user_result == SelectSeq(utable, LAMBDA r : r.id = payload.sub)
                  IN  IF Len(user_result) = 0
                      THEN UserNotFound
                      ELSE [status |-> HTTP_200_OK, detail |-> "",
                            body |-> UserOf(user_result[1])]

-----------------------------------------------------------------------------
(* Exams and questions: seeded data, there is no authoring endpoint *)

\* UserAnswer.selected_option: pattern ^[A-D]$
Options == {"A", "B", "C", "D"}

OptionAt == <<"A", "B", "C", "D">>

\* questions.marks: INTEGER DEFAULT 1, nullable; a positive integer when set
MarksDomain == {NullMarks, 1, 2}

\* Table exams. Exam 1 owns questions 1..MaxQuestions, exam 2 owns one question,
\* exam 3 owns none; no other exam exists.
exams == << [id |-> 1, exam_name |-> "Algebra"],
            [id |-> 2, exam_name |-> "Biology"],
            [id |-> 3, exam_name |-> "Empty"] >>

\* The text of a question and of its four options: one token each
QuestionText(id) == <<"text", id>>

OptionText(id, letter) == <<"option", id, letter>>

\* A row of table questions
QuestionRow(id, exam_id, correct_option, marks) ==
    [id |-> id, exam_id |-> exam_id, question_text |-> QuestionText(id),
     option_a |-> OptionText(id, "A"), option_b |-> OptionText(id, "B"),
     option_c |-> OptionText(id, "C"), option_d |-> OptionText(id, "D"),
     correct_option |-> correct_option, marks |-> marks]

\* The question of exam 2: foreign to every submission for exam 1
ForeignQuestion == QuestionRow(MaxQuestions + 1, 2, "A", 1)

\* Question i of exam 1 is answered by option A, B, C, D, A, ... in turn
CorrectOptionOf(i) == OptionAt[((i - 1) % 4) + 1]

\* The questions table for the given marks of exam 1's questions
QuestionBank(marks) ==
    [i \in 1..MaxQuestions |-> QuestionRow(i, 1, CorrectOptionOf(i), marks[i])]
    \o << ForeignQuestion >>

\* The seeded bank of the lifecycle runs: marks 1, 2, 1, 2, ...
SeededQuestions == QuestionBank([i \in 1..MaxQuestions |-> 2 - (i % 2)])

-----------------------------------------------------------------------------
(* Identifiers on the wire are strings; the tables hold integers *)

Digits == <<"1", "2", "3", "4", "5", "6", "7", "8", "9">>

\* str(n)
ToStr(n) == Digits[n]

\* int(s): "01" and "1" are the same integer, "x" raises ValueError
ParseInt(s) ==
    IF s = "01" THEN 1
    ELSE IF \E n \in DOMAIN Digits : Digits[n] = s
    THEN CHOOSE n \in DOMAIN Digits : Digits[n] = s
    ELSE ValueError

-----------------------------------------------------------------------------
(* ExamService.evaluate_exam *)

\* Mutant: the first answer given for a question is kept
DictPutKeepFirst(d, k, v) == [x \in (DOMAIN d) \cup {k} |-> IF x \in DOMAIN d THEN d[x] ELSE v]

\* user_answers_dict[question_id_int] = selected_option: a later answer replaces an earlier
DictPut(d, k, v) == [x \in (DOMAIN d) \cup {k} |-> IF x = k THEN v ELSE d[x]]

RECURSIVE BuildAnswersDictStopAtMalformed(_, _, _)
\* Mutant: a malformed question id ends the loop instead of being skipped
BuildAnswersDictStopAtMalformed(user_answers, i, d) ==
    IF i > Len(user_answers) THEN d
    ELSE LET question_id_int == ParseInt(user_answers[i].question_id)
         IN  IF question_id_int = ValueError
             THEN d
             ELSE BuildAnswersDictStopAtMalformed(user_answers, i + 1,
                      DictPut(d, question_id_int, user_answers[i].selected_option))

RECURSIVE BuildAnswersDict(_, _, _)
BuildAnswersDict(user_answers, i, d) ==
    IF i > Len(user_answers) THEN d
    ELSE LET question_id_int == ParseInt(user_answers[i].question_id)
         IN  IF question_id_int = ValueError
             THEN BuildAnswersDict(user_answers, i + 1, d)   \* except ValueError: continue
             ELSE BuildAnswersDict(user_answers, i + 1,
                                   DictPut(d, question_id_int, user_answers[i].selected_option))

\* Mutant: question["marks"] without the default
MarksRaw(marks) == marks

\* question.get("marks", 1) or 1
MarksOrOne(marks) == IF marks = NullMarks \/ marks = 0 THEN 1 ELSE marks

\* Mutant: any submitted option counts as correct
IsCorrectIfAnswered(user_option, question) == user_option # NoOption

\* user_option == question["correct_option"]
IsCorrect(user_option, question) == user_option = question.correct_option

\* Mutant: a question without an answer is skipped instead of counted as wrong
ScoreQuestionSkipUnanswered(acc, question, d) ==
    LET marks == IF question.marks = NullMarks \/ question.marks = 0 THEN 1
                 ELSE question.marks
        answered == question.id \in DOMAIN d
        user_option == IF answered THEN d[question.id] ELSE NoOption
        is_correct == IF answered THEN user_option = question.correct_option ELSE FALSE
    IN  [total_marks |-> acc.total_marks + marks,
         obtained_marks |-> IF is_correct THEN acc.obtained_marks + marks
                            ELSE acc.obtained_marks,
         correct_answers |-> IF is_correct THEN acc.correct_answers + 1
                             ELSE acc.correct_answers,
         wrong_answers |-> IF answered /\ ~is_correct THEN acc.wrong_answers + 1
                           ELSE acc.wrong_answers,
         question_responses |-> Append(acc.question_responses,
             [question_id |-> question.id, selected_option |-> user_option,
              correct_option |-> question.correct_option, is_correct |-> is_correct,
              marks |-> marks])]

\* One pass of the loop over questions_by_id
ScoreQuestion(acc, question, d) ==
    LET marks == MarksOrOne(question.marks)
        answered == question.id \in DOMAIN d
        user_option == IF answered THEN d[question.id] ELSE NoOption
        is_correct == IF answered THEN IsCorrect(user_option, question) ELSE FALSE
    IN  [total_marks |-> acc.total_marks + marks,
         obtained_marks |-> IF is_correct THEN acc.obtained_marks + marks
                            ELSE acc.obtained_marks,
         correct_answers |-> IF is_correct THEN acc.correct_answers + 1
                             ELSE acc.correct_answers,
         wrong_answers |-> IF is_correct THEN acc.wrong_answers
                           ELSE acc.wrong_answers + 1,
         question_responses |-> Append(acc.question_responses,
             [question_id |-> question.id, selected_option |-> user_option,
              correct_option |-> question.correct_option, is_correct |-> is_correct,
              marks |-> marks])]

RECURSIVE ScoreAllCountingStray(_, _, _, _)
\* Mutant: answers that name no question of the exam are counted as wrong
ScoreAllCountingStray(qs, i, d, acc) ==
    IF i > Len(qs)
    THEN [acc EXCEPT !.wrong_answers =
             @ + Cardinality((DOMAIN d) \ {qs[k].id : k \in DOMAIN qs})]
    ELSE ScoreAllCountingStray(qs, i + 1, d, ScoreQuestion(acc, qs[i], d))

RECURSIVE ScoreAll(_, _, _, _)
\* The loop over questions_by_id
ScoreAll(qs, i, d, acc) ==
    IF i > Len(qs) THEN acc
    ELSE ScoreAll(qs, i + 1, d, ScoreQuestion(acc, qs[i], d))

ZeroScore ==
    [total_marks |-> 0, obtained_marks |-> 0, correct_answers |-> 0, wrong_answers |-> 0,
     question_responses |-> <<>>]

\* The rows written to user_question_responses for one result
\* Mutant: rows are written for the answered questions only
ResponseRowsAnsweredOnly(result_id, question_responses) ==
    LET answered == SelectSeq(question_responses, LAMBDA q : q.selected_option # NoOption)
    IN  [i \in DOMAIN answered |->
            [result_id |-> result_id,
             question_id |-> answered[i].question_id,
             selected_option |-> answered[i].selected_option,
             is_correct |-> answered[i].is_correct]]

\* One user_question_responses row per evaluated question, in evaluation order
ResponseRows(result_id, question_responses) ==
    [i \in DOMAIN question_responses |->
        [result_id |-> result_id,
         question_id |-> question_responses[i].question_id,
         selected_option |-> question_responses[i].selected_option,
         is_correct |-> question_responses[i].is_correct]]

\* Mutant: the handler of last resort wraps every HTTPException into a 500
EvalErrorWrapped(status, detail, rtable, ptable) ==
    [status |-> HTTP_500_INTERNAL_SERVER_ERROR, detail |-> "Error evaluating exam",
     results |-> rtable, responses |-> ptable, result |-> NoBody]

\* raise HTTPException(status, detail) before anything is written
EvalError(status, detail, rtable, ptable) ==
    [status |-> status, detail |-> detail, results |-> rtable, responses |-> ptable,
     result |-> NoBody]

\* Mutant: a later attempt of a user at an exam replaces the earlier result and its rows
evaluate_exam_replacing(qtable, rtable, ptable, clock, user, exam_id, user_answers) ==
    LET exam_id_int == ParseInt(exam_id)
    IN  IF exam_id_int = ValueError
        THEN EvalError(HTTP_400_BAD_REQUEST, "Invalid ID format. IDs must be integers",
                       rtable, ptable)
        ELSE IF Len(SelectSeq(exams, LAMBDA e : e.id = exam_id_int)) = 0
        THEN EvalError(HTTP_404_NOT_FOUND, "Exam not found", rtable, ptable)
        ELSE LET exam_data == SelectSeq(exams, LAMBDA e : e.id = exam_id_int)[1]
                 questions_result == SelectSeq(qtable, LAMBDA q : q.exam_id = exam_id_int)
             IN  IF Len(questions_result) = 0
                 THEN EvalError(HTTP_404_NOT_FOUND, "No questions found for exam",
                                rtable, ptable)
                 ELSE LET user_answers_dict == BuildAnswersDict(user_answers, 1, <<>>)
                          score == ScoreAll(questions_result, 1, user_answers_dict, ZeroScore)
                          earlier == {i \in DOMAIN rtable :
                                         /\ rtable[i].user_id = user.id
                                         /\ rtable[i].exam_id = exam_id_int}
                          result_id == IF earlier = {} THEN Len(rtable) + 1
                                       ELSE CHOOSE i \in earlier : TRUE
                          result_data ==
                              [id |-> result_id, user_id |-> user.id, exam_id |-> exam_id_int,
                               total_marks |-> score.total_marks,
                               obtained_marks |-> score.obtained_marks,
                               correct_answers |-> score.correct_answers,
                               wrong_answers |-> score.wrong_answers,
                               completed_at |-> clock]
                      IN  [status |-> HTTP_200_OK, detail |-> "",
                           results |-> IF earlier = {} THEN Append(rtable, result_data)
                                       ELSE [rtable EXCEPT ![result_id] = result_data],
                           responses |->
                               SelectSeq(ptable, LAMBDA p : p.result_id # result_id)
                               \o ResponseRows(result_id, score.question_responses),
                           result |-> [kind |-> "result", data |-> result_data,
                                       exam_name |-> exam_data.exam_name,
                                       question_responses |-> score.question_responses]]

evaluate_exam(qtable, rtable, ptable, clock, user, exam_id, user_answers) ==
    LET exam_id_int == ParseInt(exam_id)
    IN  IF exam_id_int = ValueError
        THEN EvalError(HTTP_400_BAD_REQUEST, "Invalid ID format. IDs must be integers",
                       rtable, ptable)
        ELSE IF Len(SelectSeq(exams, LAMBDA e : e.id = exam_id_int)) = 0
        THEN EvalError(HTTP_404_NOT_FOUND, "Exam not found", rtable, ptable)
        ELSE LET exam_data == SelectSeq(exams, LAMBDA e : e.id = exam_id_int)[1]
                 questions_result == SelectSeq(qtable, LAMBDA q : q.exam_id = exam_id_int)
             IN  IF Len(questions_result) = 0
                 THEN EvalError(HTTP_404_NOT_FOUND, "No questions found for exam",
                                rtable, ptable)
                 ELSE LET user_answers_dict == BuildAnswersDict(user_answers, 1, <<>>)
                          score == ScoreAll(questions_result, 1, user_answers_dict, ZeroScore)
                          result_id == Len(rtable) + 1   \* assigned by the store
                          result_data ==
                              [id |-> result_id, user_id |-> user.id, exam_id |-> exam_id_int,
                               total_marks |-> score.total_marks,
                               obtained_marks |-> score.obtained_marks,
                               correct_answers |-> score.correct_answers,
                               wrong_answers |-> score.wrong_answers,
                               completed_at |-> clock]
                      IN  [status |-> HTTP_200_OK, detail |-> "",
                           results |-> Append(rtable, result_data),
                           responses |-> ptable \o ResponseRows(result_id,
                                                                score.question_responses),
                           result |-> [kind |-> "result", data |-> result_data,
                                       exam_name |-> exam_data.exam_name,
                                       question_responses |-> score.question_responses]]

\* q_response["selected_option"] or ""
OptionOrEmpty(selected_option) == IF selected_option = NoOption THEN "" ELSE selected_option

\* round((obtained_marks / total_marks) * 100, 2), in hundredths of a percent.
\* No quotient is halfway between two hundredths while total_marks < 32.
round2(obtained_marks, total_marks) ==
    (20000 * obtained_marks + total_marks) \div (2 * total_marks)

\* round(...) if total_marks > 0 else 0
PercentageOrZero(obtained_marks, total_marks) ==
    IF total_marks > 0 THEN round2(obtained_marks, total_marks) ELSE 0

\* The body submit_exam builds from the ExamResult: identifiers become strings
SubmitResponseBody(result) ==
    [kind |-> "result",
     id |-> ToStr(result.data.id),
     user_id |-> result.data.user_id,
     exam_id |-> ToStr(result.data.exam_id),
     exam_name |-> result.exam_name,
     total_marks |-> result.data.total_marks,
     obtained_marks |-> result.data.obtained_marks,
     correct_answers |-> result.data.correct_answers,
     wrong_answers |-> result.data.wrong_answers,
     percentage |-> PercentageOrZero(result.data.obtained_marks, result.data.total_marks),
     question_results |->
        [i \in DOMAIN result.question_responses |->
            LET q == result.question_responses[i]
            IN  [question_id |-> ToStr(q.question_id),
                 selected_option |-> OptionOrEmpty(q.selected_option),
                 correct_option |-> q.correct_option,
                 is_correct |-> q.is_correct,
                 marks |-> q.marks]]]

-----------------------------------------------------------------------------
(* ExamService: exam listing, exam delivery, history *)

\* ExamService.get_all_exams: every exam with the number of its questions
get_all_exams(qtable) ==
    [status |-> HTTP_200_OK, detail |-> "",
     body |-> [kind |-> "exams",
               items |-> [i \in DOMAIN exams |->
                   [id |-> ToStr(exams[i].id), exam_name |-> exams[i].exam_name,
                    number_of_questions |->
                        Len(SelectSeq(qtable, LAMBDA q : q.exam_id = exams[i].id))]]]]

\* ExamService.get_exam_with_questions: the exam and its questions, correct_option
\* blanked. The store casts the id filter to the integer column: "01" is exam 1,
\* and a filter that is no integer is an error of the store, wrapped into a 500.
get_exam_with_questions(qtable, exam_id) ==
    LET exam_id_int == ParseInt(exam_id)
    IN  IF exam_id_int = ValueError
        THEN [status |-> HTTP_500_INTERNAL_SERVER_ERROR, detail |-> "Error fetching exam",
              body |-> NoBody]
        ELSE IF Len(SelectSeq(exams, LAMBDA e : e.id = exam_id_int)) = 0
        THEN [status |-> HTTP_404_NOT_FOUND, detail |-> "Exam not found", body |-> NoBody]
        ELSE LET exam_data == SelectSeq(exams, LAMBDA e : e.id = exam_id_int)[1]
                 questions_result == SelectSeq(qtable, LAMBDA q : q.exam_id = exam_id_int)
             IN  [status |-> HTTP_200_OK, detail |-> "",
                  body |-> [kind |-> "exam", id |-> ToStr(exam_data.id),
                            exam_name |-> exam_data.exam_name,
                            questions |-> [i \in DOMAIN questions_result |->
                                [id |-> ToStr(questions_result[i].id),
                                 question_text |-> questions_result[i].question_text,
                                 option_a |-> questions_result[i].option_a,
                                 option_b |-> questions_result[i].option_b,
                                 option_c |-> questions_result[i].option_c,
                                 option_d |-> questions_result[i].option_d,
                                 correct_option |-> "",
                                 marks |-> questions_result[i].marks]]]]

\* ExamResult.from_dict(...).to_dict(): identifiers become strings
ResultToDict(row) ==
    [id |-> ToStr(row.id), user_id |-> row.user_id, exam_id |-> ToStr(row.exam_id),
     total_marks |-> row.total_marks, obtained_marks |-> row.obtained_marks,
     correct_answers |-> row.correct_answers, wrong_answers |-> row.wrong_answers,
     percentage |-> PercentageOrZero(row.obtained_marks, row.total_marks),
     completed_at |-> row.completed_at]

\* The orders in which the store may return n rows of a select without ORDER BY
StoreOrders(n) == {f \in [1..n -> 1..n] : \A i, j \in 1..n : f[i] = f[j] => i = j}

\* The orders in which the store may return the rows of a table
TableOrders(table) == StoreOrders(Len(table))

\* A select without ORDER BY: the matching rows of the table as the store orders it
Unordered(table, order) == [i \in DOMAIN table |-> table[order[i]]]

\* Mutant: the select carries no filter on user_id
get_user_exam_history_of_all(rtable, user_id, order) ==
    LET rows == Unordered(rtable, order)
    IN  [status |-> HTTP_200_OK, detail |-> "",
         body |-> [kind |-> "history",
                   items |-> [i \in DOMAIN rows |-> ResultToDict(rows[i])]]]

\* ExamService.get_user_exam_history: the rows of the user, in the order the store
\* returns them; the select carries no order
get_user_exam_history(rtable, user_id, order) ==
    LET rows == SelectSeq(Unordered(rtable, order), LAMBDA r : r.user_id = user_id)
    IN  [status |-> HTTP_200_OK, detail |-> "",
         body |-> [kind |-> "history",
                   items |-> [i \in DOMAIN rows |-> ResultToDict(rows[i])]]]

\* ExamService.generate_exam_analysis, with the API key configured, up to the analysis
\* context handed to the language model: the result, its exam, questions and response
\* rows are looked up, and the percentage is computed with no test of total_marks; the
\* division by zero is caught by `except Exception` and wrapped into a 500
generate_exam_analysis(qtable, rtable, ptable, result_id) ==
    LET result_data == SelectSeq(rtable, LAMBDA r : r.id = result_id)
    IN  IF Len(result_data) = 0
        THEN [status |-> HTTP_404_NOT_FOUND, detail |-> "Exam result not found",
              body |-> NoBody]
        ELSE IF Len(SelectSeq(exams, LAMBDA e : e.id = result_data[1].exam_id)) = 0
        THEN [status |-> HTTP_404_NOT_FOUND, detail |-> "Exam not found", body |-> NoBody]
        ELSE IF Len(SelectSeq(qtable, LAMBDA q : q.exam_id = result_data[1].exam_id)) = 0
        THEN [status |-> HTTP_404_NOT_FOUND, detail |-> "No questions found for exam",
              body |-> NoBody]
        ELSE IF Len(SelectSeq(ptable, LAMBDA a : a.result_id = result_id)) = 0
        THEN [status |-> HTTP_404_NOT_FOUND, detail |-> "No responses found for result",
              body |-> NoBody]
        ELSE IF result_data[1].total_marks = 0
        THEN [status |-> HTTP_500_INTERNAL_SERVER_ERROR,
              detail |-> "Error generating exam analysis", body |-> NoBody]
        ELSE [status |-> HTTP_200_OK, detail |-> "",
              body |-> [kind |-> "analysis_context",
                        total_marks |-> result_data[1].total_marks,
                        obtained_marks |-> result_data[1].obtained_marks,
                        correct_answers |-> result_data[1].correct_answers,
                        wrong_answers |-> result_data[1].wrong_answers,
                        percentage |-> round2(result_data[1].obtained_marks,
                                              result_data[1].total_marks)]]

-----------------------------------------------------------------------------
(* The HTTP handlers: the token check of the dependency, then the handler body *)

\* Mutant: the route without its Security(get_current_user) dependency
logout_unchecked(utable, ttable, token) == logout_user(ttable, token)

\* POST /auth/logout: Security(get_current_user), then AuthService.logout_user
logout(utable, ttable, token) ==
    LET current_user == get_current_user(utable, ttable, token)
    IN  IF current_user.status # HTTP_200_OK
        THEN [status |-> current_user.status, detail |-> current_user.detail,
              tokens |-> ttable]
        ELSE logout_user(ttable, token)

\* Mutant: the submission is evaluated for the token's subject without the token check
submit_exam_unchecked(utable, ttable, qtable, rtable, ptable, clock, token, exam_id, answers) ==
    LET out == evaluate_exam(qtable, rtable, ptable, clock, [id |-> token.sub],
                             exam_id, answers)
    IN  [status |-> out.status, detail |-> out.detail,
         results |-> out.results, responses |-> out.responses,
         body |-> IF out.status = HTTP_200_OK
                  THEN SubmitResponseBody(out.result) ELSE NoBody]

\* POST /exams/submit: Security(get_current_user), then ExamService.evaluate_exam
submit_exam(utable, ttable, qtable, rtable, ptable, clock, token, exam_id, answers) ==
    LET current_user == get_current_user(utable, ttable, token)
    IN  IF current_user.status # HTTP_200_OK
        THEN [status |-> current_user.status, detail |-> current_user.detail,
              results |-> rtable, responses |-> ptable, body |-> NoBody]
        ELSE LET out == evaluate_exam(qtable, rtable, ptable, clock, current_user.body,
                                      exam_id, answers)
             IN  [status |-> out.status, detail |-> out.detail,
                  results |-> out.results, responses |-> out.responses,
                  body |-> IF out.status = HTTP_200_OK
                           THEN SubmitResponseBody(out.result) ELSE NoBody]

\* GET /exams/: Security(get_current_user), then ExamService.get_all_exams
route_get_all_exams(utable, ttable, qtable, token) ==
    LET current_user == get_current_user(utable, ttable, token)
    IN  IF current_user.status # HTTP_200_OK
        THEN [status |-> current_user.status, detail |-> current_user.detail,
              body |-> NoBody]
        ELSE get_all_exams(qtable)

\* response_model QuestionForExam: the fields of the schema, and no other field
QuestionForExam(q) ==
    [id |-> q.id, question_text |-> q.question_text, option_a |-> q.option_a,
     option_b |-> q.option_b, option_c |-> q.option_c, option_d |-> q.option_d,
     marks |-> q.marks]

\* response_model ExamWithQuestions
ExamWithQuestions(body) ==
    [body EXCEPT !.questions = [i \in DOMAIN body.questions |->
                                    QuestionForExam(body.questions[i])]]

\* Mutant: the questions are delivered as the table holds them, the answer included
route_get_exam_with_answers(utable, ttable, qtable, token, exam_id) ==
    LET current_user == get_current_user(utable, ttable, token)
        out == get_exam_with_questions(qtable, exam_id)
    IN  IF current_user.status # HTTP_200_OK
        THEN [status |-> current_user.status, detail |-> current_user.detail,
              body |-> NoBody]
        ELSE IF out.status # HTTP_200_OK THEN out
        ELSE [out EXCEPT !.body.questions =
                 SelectSeq(qtable, LAMBDA q : ToStr(q.exam_id) = out.body.id)]

\* GET /exams/{exam_id}: Security(get_current_user), then
\* ExamService.get_exam_with_questions, then the response model
route_get_exam_with_questions(utable, ttable, qtable, token, exam_id) ==
    LET current_user == get_current_user(utable, ttable, token)
        out == get_exam_with_questions(qtable, exam_id)
    IN  IF current_user.status # HTTP_200_OK
        THEN [status |-> current_user.status, detail |-> current_user.detail,
              body |-> NoBody]
        ELSE IF out.status # HTTP_200_OK THEN out
        ELSE [out EXCEPT !.body = ExamWithQuestions(out.body)]

\* get_user_exam_history when the select raises, "relation does not exist" included:
\* `except Exception` raises a 500, which the route lets through
HistoryListFailed ==
    [status |-> HTTP_500_INTERNAL_SERVER_ERROR, detail |-> "Error fetching exam history",
     body |-> NoBody]

\* GET /exams/history/me: Security(get_current_user), then
\* ExamService.get_user_exam_history
get_my_exam_history(tables, utable, ttable, rtable, token, order) ==
    LET current_user == get_current_user(utable, ttable, token)
    IN  IF current_user.status # HTTP_200_OK
        THEN [status |-> current_user.status, detail |-> current_user.detail,
              body |-> NoBody]
        ELSE IF "user_exam_results" \notin tables
        THEN HistoryListFailed
        ELSE get_user_exam_history(rtable, current_user.body.id, order)

\* The body of a history detail that found nothing to show
HistoryStatus(status_text, exam_id) ==
    [kind |-> "history_detail", status |-> status_text, exam_id |-> exam_id]

\* Mutant: the response rows are read without the filter on result_id
AnswersOfAnyResult(ptable, result_id) == ptable

\* select("*").eq("result_id", result_id) on user_question_responses
AnswersOfResult(ptable, result_id) ==
    SelectSeq(ptable, LAMBDA a : a.result_id = result_id)

\* Mutant: the lookup of an exam the user has not taken is refused, as
\* verify_exam_access would refuse it
NotTakenRefused(exam_id) ==
    [status |-> HTTP_404_NOT_FOUND, detail |-> "You haven't taken this exam yet",
     body |-> NoBody]

\* The store reports that a relation does not exist: a normal response that says
\* the feature is not available
NotAvailable(exam_id) ==
    [status |-> HTTP_200_OK, detail |-> "",
     body |-> HistoryStatus("not_available", exam_id)]

\* No result of the user for the exam: a normal response that says so
NotTaken(exam_id) ==
    [status |-> HTTP_200_OK, detail |-> "", body |-> HistoryStatus("not_found", exam_id)]

\* GET /exams/history/{exam_id}: Security(get_current_user), then the first result the
\* store returns for (exam, user), with the exam's questions and the answers given.
\* Every failure of the lookups is answered 200 with a status text.
get_exam_history(tables, utable, ttable, qtable, rtable, ptable, token, exam_id, order) ==
    LET current_user == get_current_user(utable, ttable, token)
        exam_id_int == ParseInt(exam_id)
    IN  IF current_user.status # HTTP_200_OK
        THEN [status |-> current_user.status, detail |-> current_user.detail,
              body |-> NoBody]
        ELSE IF "user_exam_results" \notin tables
        THEN NotAvailable(exam_id)
        ELSE IF exam_id_int = ValueError
        THEN [status |-> HTTP_200_OK, detail |-> "",
              body |-> HistoryStatus("error", exam_id)]
        ELSE LET exam_result ==
                     SelectSeq(Unordered(rtable, order),
                               LAMBDA r : r.exam_id = exam_id_int
                                          /\ r.user_id = current_user.body.id)
                 exam_info == SelectSeq(exams, LAMBDA e : e.id = exam_id_int)
             IN  IF Len(exam_result) = 0
                 THEN NotTaken(exam_id)
                 ELSE IF Len(exam_info) = 0
                 THEN [status |-> HTTP_200_OK, detail |-> "",
                       body |-> HistoryStatus("error", exam_id)]
                 ELSE IF "user_question_responses" \notin tables
                 THEN NotAvailable(exam_id)
                 ELSE LET exam_data == exam_result[1]
                          qs == SelectSeq(qtable, LAMBDA q : q.exam_id = exam_id_int)
                          user_answers == AnswersOfResult(ptable, exam_data.id)
                      IN  [status |-> HTTP_200_OK, detail |-> "",
                           body |->
                             [kind |-> "history_detail", status |-> "success",
                              exam_id |-> exam_id,
                              title |-> exam_info[1].exam_name,
                              date_taken |-> exam_data.completed_at,
                              score |-> exam_data.obtained_marks,
                              total_marks |-> exam_data.total_marks,
                              total_questions |-> Len(qs),
                              correct_answers |-> exam_data.correct_answers,
                              wrong_answers |-> exam_data.wrong_answers,
                              percentage |-> PercentageOrZero(exam_data.obtained_marks,
                                                              exam_data.total_marks),
                              questions |-> [i \in DOMAIN qs |->
                                 LET mine == SelectSeq(user_answers,
                                                 LAMBDA a : a.question_id = qs[i].id)
                                 IN  [question_id |-> ToStr(qs[i].id),
                                      correct_answer |-> qs[i].correct_option,
                                      user_answer |-> IF Len(mine) = 0 THEN NoOption
                                                      ELSE mine[Len(mine)].selected_option,
                                      is_correct |-> IF Len(mine) = 0 THEN FALSE
                                                     ELSE mine[Len(mine)].is_correct]]]]

-----------------------------------------------------------------------------
(* Requests *)

\* A bearer token no login ever returned: signed with another key
ForgedToken ==
    [sub |-> 1, username |-> "alice", email |-> "a@x", iat |-> 0, key |-> "other-secret"]

StoredTokens == {tokens[i].token : i \in DOMAIN tokens}

\* The bearer tokens a request may carry
BearerTokens == StoredTokens \cup {ForgedToken}

\* Question identifiers a submission may carry: the questions of exam 1, the question
\* of exam 2, a second spelling of question 1, and a malformed identifier
QuestionIdStrings == {ToStr(n) : n \in 1..(MaxQuestions + 1)} \cup {"01", "x"}

\* Exam identifiers: exam 1, exam 2, the exam without questions, no exam, malformed
ExamIdStrings == {"1", "2", "3", "9", "x"}

\* The options a submission selects: the right option of each of the first three
\* questions, each a wrong option of the other two
SubmittedOptions == {"A", "B", "C"}

UserAnswers == [question_id : QuestionIdStrings, selected_option : SubmittedOptions]

AnswerLists == UNION {[1..n -> UserAnswers] : n \in 0..MaxAnswers}

\* The submission of the lifecycle runs: exam 1, question 1 right, question 2 wrong
ScenarioSubmission ==
    [exam_id |-> "1",
     answers |-> << [question_id |-> "1", selected_option |-> "A"],
                    [question_id |-> "2", selected_option |-> "C"] >>]

\* The password every registration chooses; the other one is a wrong password
ChosenPassword == "pw1"

-----------------------------------------------------------------------------
(* Actions: one per request *)

Register(username, email, password) ==
    LET out == register_user(users, username, email, password)
    IN  /\ users' = out.users
        /\ resp' = Response("register", out.status, out.detail, out.body)
        /\ UNCHANGED <<provisioned, receipts, inflight, tokens, questions, results, responses, now, submission, issued, loggedOut>>

Login(username, password) ==
    LET out == login_user(users, tokens, now, username, password)
    IN  /\ Len(out.tokens) <= MaxTokens
        /\ tokens' = out.tokens
        /\ resp' = Response("login", out.status, out.detail, out.body)
        /\ issued' = IF out.status = HTTP_200_OK
                     THEN issued \cup {[token |-> out.body.access_token,
                                        username |-> username]}
                     ELSE issued
        /\ UNCHANGED <<provisioned, receipts, inflight, users, questions, results, responses, now, submission, loggedOut>>

Logout(token) ==
    LET out == logout(users, tokens, token)
    IN  /\ tokens' = out.tokens
        /\ resp' = Response("logout", out.status, out.detail, NoBody)
        /\ loggedOut' = IF out.status = HTTP_200_OK THEN loggedOut \cup {token}
                        ELSE loggedOut
        /\ UNCHANGED <<provisioned, receipts, inflight, users, questions, results, responses, now, submission, issued>>

\* GET /auth/me: the token check alone
GetMe(token) ==
    LET out == get_current_user(users, tokens, token)
    IN  /\ resp' = Response("me", out.status, out.detail, out.body)
        /\ UNCHANGED <<provisioned, receipts, inflight, users, tokens, questions, results, responses, now, submission, issued, loggedOut>>

SubmitExam(token, exam_id, answers) ==
    LET out == submit_exam(users, tokens, questions, results, responses, now,
                           token, exam_id, answers)
    IN  /\ Len(out.results) <= MaxResults
        /\ results' = out.results
        /\ responses' = out.responses
        /\ resp' = Response("submit", out.status, out.detail, out.body)
        /\ receipts' = IF out.status = HTTP_200_OK THEN Append(receipts, out.body)
                       ELSE receipts
        /\ UNCHANGED <<provisioned, inflight, users, tokens, questions, now, submission, issued, loggedOut>>

\* A second passes on the server clock. The program only stamps rows and tokens
\* with the clock and never computes with it, so a second in which nothing was
\* stamped leaves no trace: the clock is advanced past stamped seconds only.
Tick ==
    /\ now < MaxTime
    /\ \/ \E i \in DOMAIN tokens : tokens[i].token.iat = now
       \/ \E i \in DOMAIN results : results[i].completed_at = now
    /\ now' = now + 1
    /\ resp' = Response("tick", 0, "", NoBody)
    /\ UNCHANGED <<provisioned, receipts, inflight, users, tokens, questions, results, responses, submission, issued, loggedOut>>

\* GET /exams/
ListExams(token) ==
    LET out == route_get_all_exams(users, tokens, questions, token)
    IN  /\ resp' = Response("exams", out.status, out.detail, out.body)
        /\ UNCHANGED <<provisioned, receipts, inflight, users, tokens, questions, results, responses, now, submission, issued, loggedOut>>

\* GET /exams/{exam_id}
GetExam(token, exam_id) ==
    LET out == route_get_exam_with_questions(users, tokens, questions, token, exam_id)
    IN  /\ resp' = Response("exam", out.status, out.detail, out.body)
        /\ UNCHANGED <<provisioned, receipts, inflight, users, tokens, questions, results, responses, now, submission, issued, loggedOut>>

\* GET /exams/history/me; the store returns the rows in some order
HistoryMe(token, order) ==
    LET out == get_my_exam_history(provisioned, users, tokens, results, token, order)
    IN  /\ resp' = Response("history", out.status, out.detail, out.body)
        /\ UNCHANGED <<provisioned, receipts, inflight, users, tokens, questions, results, responses, now, submission, issued, loggedOut>>

\* GET /exams/history/{exam_id}
HistoryDetail(token, exam_id, order) ==
    LET out == get_exam_history(provisioned, users, tokens, questions, results, responses,
                                token, exam_id, order)
    IN  /\ resp' = Response("history_detail", out.status, out.detail, out.body)
        /\ UNCHANGED <<provisioned, receipts, inflight, users, tokens, questions, results, responses, now, submission, issued, loggedOut>>

\* POST /exams/submit, for runs of up to MaxAttempts results
Attempt(token, exam_id, answers) ==
    LET out == submit_exam(users, tokens, questions, results, responses, now,
                           token, exam_id, answers)
    IN  /\ Len(out.results) <= MaxAttempts
        /\ results' = out.results
        /\ responses' = out.responses
        /\ resp' = Response("submit", out.status, out.detail, out.body)
        /\ receipts' = IF out.status = HTTP_200_OK THEN Append(receipts, out.body)
                       ELSE receipts
        /\ UNCHANGED <<provisioned, inflight, users, tokens, questions, now, submission, issued, loggedOut>>

\* The requests that can be inside evaluate_exam at the same time
Requests == 1..MaxInFlight

\* A request that is not inside evaluate_exam
IdleRequest == [stage |-> "idle", result |-> NoBody, pending |-> << >>]

NoRequests == [r \in Requests |-> IdleRequest]

\* Mutant: a user with a result for the exam is refused another attempt
BeginSubmitOnePerExam(r, token, exam_id, answers) ==
    LET out == submit_exam(users, tokens, questions, results, responses, now,
                           token, exam_id, answers)
        taken == out.status = HTTP_200_OK
                 /\ \E i \in DOMAIN results :
                       /\ results[i].user_id = out.results[Len(out.results)].user_id
                       /\ results[i].exam_id = out.results[Len(out.results)].exam_id
    IN  /\ inflight[r].stage = "idle"
        /\ Len(out.results) <= MaxAttempts
        /\ results' = IF taken THEN results ELSE out.results
        /\ IF out.status = HTTP_200_OK /\ ~taken
           THEN /\ inflight' = [inflight EXCEPT ![r] =
                       [stage |-> "writing", result |-> out.body,
                        pending |-> SubSeq(out.responses, Len(responses) + 1,
                                           Len(out.responses))]]
                /\ resp' = Response("begin", 0, "", NoBody)
           ELSE /\ inflight' = inflight
                /\ resp' = Response("submit",
                                    IF taken THEN HTTP_400_BAD_REQUEST ELSE out.status,
                                    out.detail, NoBody)
        /\ UNCHANGED <<provisioned, receipts, users, tokens, questions, responses, now, submission, issued, loggedOut>>

\* POST /exams/submit up to its first write: the token check, the evaluation and the
\* insert of the result row; the response rows are still to be written
BeginSubmit(r, token, exam_id, answers) ==
    LET out == submit_exam(users, tokens, questions, results, responses, now,
                           token, exam_id, answers)
    IN  /\ inflight[r].stage = "idle"
        /\ Len(out.results) <= MaxAttempts
        /\ results' = out.results
        /\ IF out.status = HTTP_200_OK
           THEN /\ inflight' = [inflight EXCEPT ![r] =
                       [stage |-> "writing", result |-> out.body,
                        pending |-> SubSeq(out.responses, Len(responses) + 1,
                                           Len(out.responses))]]
                /\ resp' = Response("begin", 0, "", NoBody)
           ELSE /\ inflight' = inflight
                /\ resp' = Response("submit", out.status, out.detail, out.body)
        /\ UNCHANGED <<provisioned, receipts, users, tokens, questions, responses, now, submission, issued, loggedOut>>

\* One pass of the loop over question_responses: one row is inserted
WriteResponse(r) ==
    /\ inflight[r].stage = "writing"
    /\ inflight[r].pending # << >>
    /\ responses' = Append(responses, Head(inflight[r].pending))
    /\ inflight' = [inflight EXCEPT ![r].pending = Tail(@)]
    /\ resp' = Response("write", 0, "", NoBody)
    /\ UNCHANGED <<provisioned, receipts, users, tokens, questions, results, now, submission, issued, loggedOut>>

\* Mutant: the rows of the failed submission are deleted again
StoreFailureRollback(r) ==
    /\ inflight[r].stage = "writing"
    /\ inflight[r].pending # << >>
    /\ results' = SelectSeq(results, LAMBDA row : ToStr(row.id) # inflight[r].result.id)
    /\ responses' = SelectSeq(responses,
                              LAMBDA p : ToStr(p.result_id) # inflight[r].result.id)
    /\ inflight' = [inflight EXCEPT ![r] = IdleRequest]
    /\ resp' = Response("submit", HTTP_500_INTERNAL_SERVER_ERROR, "Error evaluating exam",
                        NoBody)
    /\ UNCHANGED <<provisioned, receipts, users, tokens, questions, now, submission, issued, loggedOut>>

\* An insert of the loop raises: `except Exception` answers 500; nothing is undone
StoreFailure(r) ==
    /\ inflight[r].stage = "writing"
    /\ inflight[r].pending # << >>
    /\ inflight' = [inflight EXCEPT ![r] = IdleRequest]
    /\ resp' = Response("submit", HTTP_500_INTERNAL_SERVER_ERROR, "Error evaluating exam",
                        NoBody)
    /\ UNCHANGED <<provisioned, receipts, users, tokens, questions, results, responses, now, submission, issued, loggedOut>>

\* The server stops while the loop runs: the request ends without a response
Abort(r) ==
    /\ inflight[r].stage = "writing"
    /\ inflight[r].pending # << >>
    /\ inflight' = [inflight EXCEPT ![r] = IdleRequest]
    /\ resp' = Response("abort", 0, "", NoBody)
    /\ UNCHANGED <<provisioned, receipts, users, tokens, questions, results, responses, now, submission, issued, loggedOut>>

\* The loop is over: the ExamResult is returned and the handler answers 200
FinishSubmit(r) ==
    /\ inflight[r].stage = "writing"
    /\ inflight[r].pending = << >>
    /\ inflight' = [inflight EXCEPT ![r] = IdleRequest]
    /\ resp' = Response("submit", HTTP_200_OK, "", inflight[r].result)
    /\ receipts' = Append(receipts, inflight[r].result)
    /\ UNCHANGED <<provisioned, users, tokens, questions, results, responses, now, submission, issued, loggedOut>>

-----------------------------------------------------------------------------
(* The service as deployed: an empty store and the seeded exams *)

Init ==
    /\ users = << >>
    /\ tokens = << >>
    /\ questions = SeededQuestions
    /\ results = << >>
    /\ responses = << >>
    /\ now = 0
    /\ submission = NoSubmission
    /\ resp = Response("none", 0, "", NoBody)
    /\ issued = {}
    /\ loggedOut = {}
    /\ inflight = NoRequests
    /\ receipts = << >>
    /\ provisioned = ResultTables

Next ==
    \/ \E u \in Usernames, e \in Emails : Register(u, e, ChosenPassword)
    \/ \E u \in Usernames, p \in Passwords : Login(u, p)
    \/ \E t \in BearerTokens : Logout(t)
    \/ \E t \in BearerTokens : GetMe(t)
    \/ \E t \in BearerTokens :
          SubmitExam(t, ScenarioSubmission.exam_id, ScenarioSubmission.answers)
    \/ Tick

Spec == Init /\ [][Next]_vars

-----------------------------------------------------------------------------
(* Evaluation runs: one logged-in user submits one body to evaluate_exam, for  *)
(* every marking of exam 1's questions and every submission within the bounds *)

EvalUser ==
    [id |-> 1, username |-> "alice", email |-> "a@x", password_hash |-> hashpw(ChosenPassword)]

EvalToken ==
    jwt_encode([sub |-> 1, username |-> "alice", email |-> "a@x", iat |-> 0], JWT_SECRET)

QuestionBanks == {QuestionBank(m) : m \in [1..MaxQuestions -> MarksDomain]}

\* Every answer list for exam 1; the other exam identifiers with at most one answer
Submissions ==
    {[exam_id |-> "1", answers |-> a] : a \in AnswerLists}
    \cup {[exam_id |-> e, answers |-> a] :
            e \in ExamIdStrings \ {"1"}, a \in UNION {[1..n -> UserAnswers] : n \in 0..1}}

InitEval ==
    /\ users = << EvalUser >>
    /\ tokens = << [id |-> 1, user_id |-> 1, token |-> EvalToken, is_revoked |-> FALSE] >>
    /\ questions \in QuestionBanks
    /\ results = << >>
    /\ responses = << >>
    /\ now = 0
    /\ submission \in Submissions
    /\ resp = Response("none", 0, "", NoBody)
    /\ issued = {[token |-> EvalToken, username |-> "alice"]}
    /\ loggedOut = {}
    /\ inflight = NoRequests
    /\ receipts = << >>
    /\ provisioned = ResultTables

\* The pending submission is sent, once
EvalSubmit ==
    /\ resp.op = "none"
    /\ SubmitExam(EvalToken, submission.exam_id, submission.answers)

NextEval == EvalSubmit

SpecEval == InitEval /\ [][NextEval]_vars

-----------------------------------------------------------------------------
(* Service runs: get_current_user and logout_user called on every content the *)
(* users and tokens tables can hold, whoever wrote the rows                   *)

ServiceUser1 ==
    [id |-> 1, username |-> "alice", email |-> "a@x", password_hash |-> hashpw(ChosenPassword)]

ServiceUser2 ==
    [id |-> 2, username |-> "bob", email |-> "b@x", password_hash |-> hashpw(ChosenPassword)]

ServiceUserTables == { << >>, << ServiceUser1 >>, << ServiceUser1, ServiceUser2 >> }

\* Token strings: a subject claim naming user 1, user 2 or nobody, signed with the
\* server's key or with another one
ServiceTokens ==
    {[sub |-> s, username |-> "alice", email |-> "a@x", iat |-> 0, key |-> k] :
        s \in {NoSub, 1, 2}, k \in {JWT_SECRET, "other-secret"}}

ServiceTokenRows ==
    {[user_id |-> 1, token |-> t, is_revoked |-> r] : t \in ServiceTokens, r \in BOOLEAN}

\* Tables of at most MaxTokens rows; the token column is UNIQUE
ServiceTokenTables ==
    {[i \in DOMAIN rows |->
        [id |-> i, user_id |-> rows[i].user_id, token |-> rows[i].token,
         is_revoked |-> rows[i].is_revoked]] :
     rows \in {r \in UNION {[1..n -> ServiceTokenRows] : n \in 0..MaxTokens} :
                 \A i, j \in DOMAIN r : i # j => r[i].token # r[j].token}}

InitService ==
    /\ users \in ServiceUserTables
    /\ tokens \in ServiceTokenTables
    /\ \A i \in DOMAIN tokens : \E j \in DOMAIN users : users[j].id = tokens[i].user_id
    /\ questions = SeededQuestions
    /\ results = << >>
    /\ responses = << >>
    /\ now = 0
    /\ submission = NoSubmission
    /\ resp = Response("none", 0, "", NoBody)
    /\ issued = {}
    /\ loggedOut = {}
    /\ inflight = NoRequests
    /\ receipts = << >>
    /\ provisioned = ResultTables

\* AuthService.logout_user called directly, without the route's token check
LogoutUser(token) ==
    LET out == logout_user(tokens, token)
    IN  /\ tokens' = out.tokens
        /\ resp' = Response("logout_user", out.status, out.detail, NoBody)
        /\ loggedOut' = IF out.status = HTTP_200_OK THEN loggedOut \cup {token}
                        ELSE loggedOut
        /\ UNCHANGED <<provisioned, receipts, inflight, users, questions, results, responses, now, submission, issued>>

NextService ==
    \/ \E t \in ServiceTokens : GetMe(t)
    \/ \E t \in ServiceTokens : LogoutUser(t)

SpecService == InitService /\ [][NextService]_vars

-----------------------------------------------------------------------------
(* Exam sessions: both users are registered and logged in; every protected   *)
(* route is called with every bearer token, sessions end, and the clock ticks *)

ExamToken1 == EvalToken

ExamToken2 ==
    jwt_encode([sub |-> 2, username |-> "bob", email |-> "b@x", iat |-> 0], JWT_SECRET)

InitExam ==
    /\ users = << ServiceUser1, ServiceUser2 >>
    /\ tokens = << [id |-> 1, user_id |-> 1, token |-> ExamToken1, is_revoked |-> FALSE],
                   [id |-> 2, user_id |-> 2, token |-> ExamToken2, is_revoked |-> FALSE] >>
    /\ questions = SeededQuestions
    /\ results = << >>
    /\ responses = << >>
    /\ now = 0
    /\ submission = NoSubmission
    /\ resp = Response("none", 0, "", NoBody)
    /\ issued = {[token |-> ExamToken1, username |-> "alice"],
                 [token |-> ExamToken2, username |-> "bob"]}
    /\ loggedOut = {}
    /\ inflight = NoRequests
    /\ receipts = << >>
    /\ provisioned = ResultTables

NextExam ==
    \/ \E t \in BearerTokens : Logout(t)
    \/ \E t \in BearerTokens : GetMe(t)
    \/ \E t \in BearerTokens : ListExams(t)
    \/ \E t \in BearerTokens, e \in ExamIdStrings : GetExam(t, e)
    \/ \E t \in BearerTokens :
          Attempt(t, ScenarioSubmission.exam_id, ScenarioSubmission.answers)
    \/ \E t \in BearerTokens, o \in TableOrders(results) : HistoryMe(t, o)
    \/ \E t \in BearerTokens, e \in ExamIdStrings, o \in TableOrders(results) :
          HistoryDetail(t, e, o)
    \/ Tick

SpecExam == InitExam /\ [][NextExam]_vars

-----------------------------------------------------------------------------
(* Every operation of the service on a store that holds results: the two      *)
(* logged-in users register, log out, submit and look results up, and alice    *)
(* logs in again                                                              *)

NextStore ==
    \/ \E u \in Usernames, e \in Emails : Register(u, e, ChosenPassword)
    \/ \E p \in Passwords : Login(ServiceUser1.username, p)
    \/ \E t \in BearerTokens : Logout(t)
    \/ \E t \in BearerTokens : GetMe(t)
    \/ \E t \in BearerTokens : ListExams(t)
    \/ \E t \in BearerTokens : GetExam(t, ScenarioSubmission.exam_id)
    \/ \E t \in BearerTokens :
          Attempt(t, ScenarioSubmission.exam_id, ScenarioSubmission.answers)
    \/ \E t \in BearerTokens, o \in TableOrders(results) : HistoryMe(t, o)
    \/ \E t \in BearerTokens, o \in TableOrders(results) :
          HistoryDetail(t, ScenarioSubmission.exam_id, o)
    \/ Tick

SpecStore == InitExam /\ [][NextStore]_vars

-----------------------------------------------------------------------------
(* Submissions write by write: a logged-in user, up to MaxInFlight requests   *)
(* inside evaluate_exam at once, and store writes that can fail               *)

InitSteps ==
    /\ users = << EvalUser >>
    /\ tokens = << [id |-> 1, user_id |-> 1, token |-> EvalToken, is_revoked |-> FALSE] >>
    /\ questions = SeededQuestions
    /\ results = << >>
    /\ responses = << >>
    /\ now = 0
    /\ submission = NoSubmission
    /\ resp = Response("none", 0, "", NoBody)
    /\ issued = {[token |-> EvalToken, username |-> "alice"]}
    /\ loggedOut = {}
    /\ inflight = NoRequests
    /\ receipts = << >>
    /\ provisioned = ResultTables

NextSteps ==
    \/ \E r \in Requests, t \in BearerTokens :
          /\ \A other \in 1..(r - 1) : inflight[other].stage # "idle"
          /\ BeginSubmit(r, t, ScenarioSubmission.exam_id, ScenarioSubmission.answers)
    \/ \E r \in Requests : WriteResponse(r)
    \/ \E r \in Requests : StoreFailure(r)
    \/ \E r \in Requests : Abort(r)
    \/ \E r \in Requests : FinishSubmit(r)

SpecSteps == InitSteps /\ [][NextSteps]_vars

-----------------------------------------------------------------------------
(* Round trips: alice sends one submission, any within the bounds; bob takes  *)
(* exam 1 before or after her; both look their results up                     *)

InitRound ==
    /\ users = << ServiceUser1, ServiceUser2 >>
    /\ tokens = << [id |-> 1, user_id |-> 1, token |-> ExamToken1, is_revoked |-> FALSE],
                   [id |-> 2, user_id |-> 2, token |-> ExamToken2, is_revoked |-> FALSE] >>
    /\ questions = SeededQuestions
    /\ results = << >>
    /\ responses = << >>
    /\ now = 0
    /\ submission \in Submissions
    /\ resp = Response("none", 0, "", NoBody)
    /\ issued = {[token |-> ExamToken1, username |-> "alice"],
                 [token |-> ExamToken2, username |-> "bob"]}
    /\ loggedOut = {}
    /\ inflight = NoRequests
    /\ receipts = << >>
    /\ provisioned = ResultTables

\* alice's submission, until it is accepted
RoundSubmit ==
    /\ \A i \in DOMAIN results : results[i].user_id # ServiceUser1.id
    /\ Attempt(ExamToken1, submission.exam_id, submission.answers)

\* bob's attempt at exam 1
OtherAttempt ==
    /\ \A i \in DOMAIN results : results[i].user_id # ServiceUser2.id
    /\ Attempt(ExamToken2, ScenarioSubmission.exam_id, ScenarioSubmission.answers)

RoundLookup(token, order) == HistoryDetail(token, submission.exam_id, order)

NextRound ==
    \/ RoundSubmit
    \/ OtherAttempt
    \/ \E t \in StoredTokens, o \in TableOrders(results) : RoundLookup(t, o)

SpecRound == InitRound /\ [][NextRound]_vars

\* Runs in which alice's submission holds at most one answer, with the history
\* list looked up as well
InitIsolation ==
    /\ InitRound
    /\ Len(submission.answers) <= 1

NextIsolation ==
    \/ NextRound
    \/ \E t \in StoredTokens, o \in TableOrders(results) : HistoryMe(t, o)

SpecIsolation == InitIsolation /\ [][NextIsolation]_vars

-----------------------------------------------------------------------------
(* Percentages: alice has one result, of any marks within the bounds, and each *)
(* computation of a percentage is applied to it                               *)

\* A result of marks obtained out of total: the bank may hold any marks, and a
\* result outlives the marks it was scored with
StoredResult(obtained, total) ==
    [id |-> 1, user_id |-> ServiceUser1.id, exam_id |-> 1, total_marks |-> total,
     obtained_marks |-> obtained, correct_answers |-> 0, wrong_answers |-> MaxQuestions,
     completed_at |-> 0]

InitPercent ==
    /\ users = << ServiceUser1 >>
    /\ tokens = << [id |-> 1, user_id |-> 1, token |-> ExamToken1, is_revoked |-> FALSE] >>
    /\ questions = SeededQuestions
    /\ results \in {<< StoredResult(o, t) >> : o \in 0..MaxMarks, t \in 0..MaxMarks}
    /\ results[1].obtained_marks <= results[1].total_marks
    /\ responses = [i \in 1..MaxQuestions |->
                       [result_id |-> 1, question_id |-> i, selected_option |-> NoOption,
                        is_correct |-> FALSE]]
    /\ now = 0
    /\ submission = NoSubmission
    /\ resp = Response("none", 0, "", NoBody)
    /\ issued = {[token |-> ExamToken1, username |-> "alice"]}
    /\ loggedOut = {}
    /\ inflight = NoRequests
    /\ receipts = << >>
    /\ provisioned = ResultTables

\* The body of the submit response, built from the result
PercentSubmitted ==
    /\ resp' = Response("submit", HTTP_200_OK, "",
                        SubmitResponseBody([data |-> results[1], exam_name |-> "Algebra",
                                            question_responses |-> << >>]))
    /\ UNCHANGED <<provisioned, users, tokens, questions, results, responses, now, submission, issued, loggedOut, inflight, receipts>>

\* ExamService.generate_exam_analysis for the result
Analysis(result_id) ==
    LET out == generate_exam_analysis(questions, results, responses, result_id)
    IN  /\ resp' = Response("analysis", out.status, out.detail, out.body)
        /\ UNCHANGED <<provisioned, users, tokens, questions, results, responses, now, submission, issued, loggedOut, inflight, receipts>>

NextPercent ==
    \/ PercentSubmitted
    \/ \E o \in TableOrders(results) : HistoryMe(ExamToken1, o)
    \/ \E o \in TableOrders(results) : HistoryDetail(ExamToken1, "1", o)
    \/ Analysis(1)

SpecPercent == InitPercent /\ [][NextPercent]_vars

-----------------------------------------------------------------------------
(* Registrations store step by step: register_user makes three calls to the     *)
(* store, the select by username, the select by email and the insert, and      *)
(* requests served by different workers interleave between them                *)

\* A request inside register_user, before the call named by its stage
Registering(stage, username, email) ==
    [stage |-> stage, username |-> username, email |-> email]

\* The select by username; a row found raises the 400
CheckUsername(r, username, email) ==
    /\ inflight[r].stage = "idle"
    /\ IF UsernameExists(users, username)
       THEN /\ resp' = Response("register", HTTP_400_BAD_REQUEST,
                                "Username already exists", NoBody)
            /\ UNCHANGED inflight
       ELSE /\ inflight' = [inflight EXCEPT ![r] = Registering("check_email", username, email)]
            /\ resp' = Response("select", 0, "", NoBody)
    /\ UNCHANGED <<users, tokens, questions, results, responses, now, submission, issued, loggedOut, receipts, provisioned>>

\* The select by email; a row found raises the 400
CheckEmail(r) ==
    /\ inflight[r].stage = "check_email"
    /\ IF EmailExists(users, inflight[r].email)
       THEN /\ resp' = Response("register", HTTP_400_BAD_REQUEST,
                                "Email already exists", NoBody)
            /\ inflight' = [inflight EXCEPT ![r] = IdleRequest]
       ELSE /\ inflight' = [inflight EXCEPT ![r].stage = "insert"]
            /\ resp' = Response("select", 0, "", NoBody)
    /\ UNCHANGED <<users, tokens, questions, results, responses, now, submission, issued, loggedOut, receipts, provisioned>>

\* The insert; the store's refusal of a row that breaks UNIQUE is an exception,
\* which `except Exception` wraps into the 500
InsertUser(r) ==
    LET user_data == [id |-> NewId(users), username |-> inflight[r].username,
                      email |-> inflight[r].email, password_hash |-> hashpw(ChosenPassword)]
        result == UsersInsert(users, user_data)
    IN  /\ inflight[r].stage = "insert"
        /\ users' = result.table
        /\ resp' = IF result.ok
                   THEN Response("register", HTTP_201_CREATED, "", UserOf(user_data))
                   ELSE Response("register", HTTP_500_INTERNAL_SERVER_ERROR,
                                 "Error creating user", NoBody)
        /\ inflight' = [inflight EXCEPT ![r] = IdleRequest]
        /\ UNCHANGED <<tokens, questions, results, responses, now, submission, issued, loggedOut, receipts, provisioned>>

NextRegister ==
    \/ \E r \in Requests, u \in Usernames, e \in Emails : CheckUsername(r, u, e)
    \/ \E r \in Requests : CheckEmail(r)
    \/ \E r \in Requests : InsertUser(r)

SpecRegister == Init /\ [][NextRegister]_vars

-----------------------------------------------------------------------------
(* Submissions in two steps: the dependency get_current_user runs first, the    *)
(* route body with evaluate_exam after it, and other requests are served in    *)
(* between                                                                     *)

\* A request between the token check and the route body
Authenticated(token, current_user) ==
    [stage |-> "authenticated", token |-> token, current_user |-> current_user]

\* The requests that passed the token check and have not written their result
Admitted == {r \in Requests : inflight[r].stage = "authenticated"}

\* Security(get_current_user) of POST /exams/submit: a refusal is the response
Authenticate(r, token) ==
    LET current_user == get_current_user(users, tokens, token)
    IN  /\ inflight[r].stage = "idle"
        /\ Len(results) + Cardinality(Admitted) < MaxAttempts
        /\ IF current_user.status = HTTP_200_OK
           THEN /\ inflight' = [inflight EXCEPT ![r] =
                                   Authenticated(token, current_user.body)]
                /\ resp' = Response("authenticate", 0, "", NoBody)
           ELSE /\ inflight' = inflight
                /\ resp' = Response("submit", current_user.status,
                                    current_user.detail, NoBody)
        /\ UNCHANGED <<users, tokens, questions, results, responses, now, submission, issued, loggedOut, receipts, provisioned>>

\* Mutant: the route body checks the token again before it evaluates
EvaluateSubmitRechecked(r) ==
    LET out == submit_exam(users, tokens, questions, results, responses, now,
                           inflight[r].token, ScenarioSubmission.exam_id,
                           ScenarioSubmission.answers)
    IN  /\ inflight[r].stage = "authenticated"
        /\ results' = out.results
        /\ responses' = out.responses
        /\ resp' = Response("submit", out.status, out.detail, out.body)
        /\ receipts' = IF out.status = HTTP_200_OK THEN Append(receipts, out.body)
                       ELSE receipts
        /\ inflight' = [inflight EXCEPT ![r] = IdleRequest]
        /\ UNCHANGED <<users, tokens, questions, now, submission, issued, loggedOut, provisioned>>

\* The body of submit_exam: evaluate_exam for the user the dependency returned;
\* the tokens table is not read again
EvaluateSubmit(r) ==
    LET out == evaluate_exam(questions, results, responses, now,
                             inflight[r].current_user, ScenarioSubmission.exam_id,
                             ScenarioSubmission.answers)
        body == IF out.status = HTTP_200_OK THEN SubmitResponseBody(out.result)
                ELSE NoBody
    IN  /\ inflight[r].stage = "authenticated"
        /\ results' = out.results
        /\ responses' = out.responses
        /\ resp' = Response("submit", out.status, out.detail, body)
        /\ receipts' = IF out.status = HTTP_200_OK THEN Append(receipts, body)
                       ELSE receipts
        /\ inflight' = [inflight EXCEPT ![r] = IdleRequest]
        /\ UNCHANGED <<users, tokens, questions, now, submission, issued, loggedOut, provisioned>>

NextAdmission ==
    \/ \E r \in Requests, t \in BearerTokens : Authenticate(r, t)
    \/ \E r \in Requests : EvaluateSubmit(r)
    \/ \E t \in BearerTokens : Logout(t)
    \/ \E u \in Usernames, p \in Passwords : Login(u, p)

SpecAdmission == InitExam /\ [][NextAdmission]_vars

-----------------------------------------------------------------------------
(* History lookups against a store in which a table of results or responses may
   not exist.  A result can exist without the table of responses: the result is
   written first and stays when the write of the responses fails. *)

InitMissing ==
    /\ users = << ServiceUser1, ServiceUser2 >>
    /\ tokens = << [id |-> 1, user_id |-> 1, token |-> ExamToken1, is_revoked |-> FALSE],
                   [id |-> 2, user_id |-> 2, token |-> ExamToken2, is_revoked |-> FALSE] >>
    /\ questions = SeededQuestions
    /\ provisioned \in SUBSET ResultTables
    /\ results \in {<< >>, << StoredResult(0, 3) >>}
    /\ "user_exam_results" \notin provisioned => results = << >>
    /\ responses = IF results # << >> /\ "user_question_responses" \in provisioned
                   THEN [i \in 1..MaxQuestions |->
                            [result_id |-> 1, question_id |-> i,
                             selected_option |-> NoOption, is_correct |-> FALSE]]
                   ELSE << >>
    /\ now = 0
    /\ submission = NoSubmission
    /\ resp = Response("none", 0, "", NoBody)
    /\ issued = {[token |-> ExamToken1, username |-> "alice"],
                 [token |-> ExamToken2, username |-> "bob"]}
    /\ loggedOut = {}
    /\ inflight = NoRequests
    /\ receipts = << >>

NextMissing ==
    \/ \E t \in BearerTokens : Logout(t)
    \/ \E t \in BearerTokens, o \in TableOrders(results) : HistoryMe(t, o)
    \/ \E t \in BearerTokens, e \in ExamIdStrings, o \in TableOrders(results) :
          HistoryDetail(t, e, o)

SpecMissing == InitMissing /\ [][NextMissing]_vars

-----------------------------------------------------------------------------
(* Vocabulary of the properties *)

\* The marks a question carries: the column's default of 1 where none are stored
DeclaredMarks(q) == IF q.marks = NullMarks THEN 1 ELSE q.marks

RECURSIVE SumOfMarks(_)
\* The sum of the marks of a finite set of questions
SumOfMarks(S) ==
    IF S = {} THEN 0
    ELSE LET x == CHOOSE y \in S : TRUE IN DeclaredMarks(x) + SumOfMarks(S \ {x})

\* The questions belonging to an exam
QuestionsOf(exam_id) == {q \in Range(questions) : q.exam_id = exam_id}

\* The response rows written for a result
RowsOf(result_id) == {p \in Range(responses) : p.result_id = result_id}

\* The answers of the pending submission that name a question
AnswersFor(question_id) ==
    {i \in DOMAIN submission.answers :
        ParseInt(submission.answers[i].question_id) = question_id}

\* The option a submission selects for a question: that of its last answer naming it
LastSelected(question_id) ==
    LET last == CHOOSE i \in AnswersFor(question_id) :
                    \A j \in AnswersFor(question_id) : j <= i
    IN  submission.answers[last].selected_option

Aggregates(r) == <<r.total_marks, r.obtained_marks, r.correct_answers, r.wrong_answers>>

Submitted == resp.op = "submit" /\ resp.status = HTTP_200_OK

-----------------------------------------------------------------------------
(* C1: in the Result of every evaluation, persisted and returned,           *)
(* correct_answers + wrong_answers is the number of questions of the exam:  *)
(* every question is counted once, answered or not.                         *)
C1_EveryQuestionCounted ==
    /\ \A i \in DOMAIN results :
          results[i].correct_answers + results[i].wrong_answers
              = Cardinality(QuestionsOf(results[i].exam_id))
    /\ Submitted =>
          /\ resp.body.correct_answers + resp.body.wrong_answers
                = Cardinality(QuestionsOf(ParseInt(resp.body.exam_id)))
          /\ Len(resp.body.question_results)
                = Cardinality(QuestionsOf(ParseInt(resp.body.exam_id)))

\* Exam 1 scored with one question answered right and every other question unanswered
C1_Witness ==
    /\ Submitted
    /\ submission = [exam_id |-> "1",
                     answers |-> << [question_id |-> "1", selected_option |-> "A"] >>]
    /\ results[1].correct_answers = 1
    /\ results[1].wrong_answers = MaxQuestions - 1

C3_CorrectIffSelectedRight ==
    \A i \in DOMAIN results :
        LET r == results[i]
        IN  /\ \A q \in QuestionsOf(r.exam_id) :
                  \E p \in RowsOf(r.id) :
                      /\ p.question_id = q.id
                      /\ p.selected_option = IF AnswersFor(q.id) = {} THEN NoOption
                                             ELSE LastSelected(q.id)
                      /\ p.is_correct <=> /\ p.selected_option # NoOption
                                          /\ p.selected_option = q.correct_option
            /\ r.wrong_answers = Cardinality({p \in RowsOf(r.id) : ~p.is_correct})
            /\ Submitted =>
                  \A k \in DOMAIN resp.body.question_results :
                      LET a == resp.body.question_results[k]
                      IN  \E p \in RowsOf(r.id) :
                              /\ ToStr(p.question_id) = a.question_id
                              /\ OptionOrEmpty(p.selected_option) = a.selected_option
                              /\ p.is_correct = a.is_correct
            /\ \A q \in QuestionsOf(r.exam_id), o \in SubmittedOptions :
                  (AnswersFor(q.id) = {} /\ o # q.correct_option) =>
                      LET wrong == Append(submission.answers,
                                       [question_id |-> ToStr(q.id), selected_option |-> o])
                          again == evaluate_exam(questions, << >>, << >>, now, EvalUser,
                                                 submission.exam_id, wrong)
                      IN  Aggregates(again.result.data) = Aggregates(r)

\* One question answered right, another left out
C3_Witness ==
    /\ Submitted
    /\ \E p \in RowsOf(1) : p.is_correct
    /\ \E p \in RowsOf(1) : p.selected_option = NoOption /\ ~p.is_correct

-----------------------------------------------------------------------------
(* Vocabulary of the session properties *)

\* The rows of the tokens table holding a token string
RowsWithToken(token) == {i \in DOMAIN tokens : tokens[i].token = token}

\* A token with a row that is not revoked, the server's signature, and a subject
\* naming a user
ValidToken(token) ==
    /\ \E i \in RowsWithToken(token) : ~tokens[i].is_revoked
    /\ token.key = JWT_SECRET
    /\ \E j \in DOMAIN users : users[j].id = token.sub

Unauthorized(response) == response.status = HTTP_401_UNAUTHORIZED

(* C4: once a logout of token t has succeeded, authenticating with t fails  *)
(* with 401 in every later state, whatever registrations, logins, logouts   *)
(* and submissions follow, although t still carries the server's signature. *)
C4_RevokedStaysRevoked ==
    \A t \in loggedOut :
        /\ Unauthorized(get_current_user(users, tokens, t))
        /\ Unauthorized(logout(users, tokens, t))
        /\ Unauthorized(submit_exam(users, tokens, questions, results, responses, now, t,
                                    ScenarioSubmission.exam_id, ScenarioSubmission.answers))

\* A logged-out token with a good signature is refused while its owner holds a
\* newer session
C4_Witness ==
    /\ resp = Response("me", HTTP_401_UNAUTHORIZED, "Invalid or revoked token", NoBody)
    /\ ForgedToken \notin StoredTokens
    /\ \E t \in loggedOut :
          /\ jwt_decode(t, JWT_SECRET).ok
          /\ \E i \in DOMAIN tokens : /\ tokens[i].user_id = t.sub
                                      /\ tokens[i].token # t
                                      /\ ~tokens[i].is_revoked

(* C5: a token returned by a successful login authenticates, as the user who *)
(* logged in, for as long as no logout of that very token has succeeded:     *)
(* later logins, logouts of other tokens and submissions do not end it.      *)
C5_ValidUntilLoggedOut ==
    \A i \in issued :
        i.token \notin loggedOut =>
            LET out == get_current_user(users, tokens, i.token)
            IN  /\ out.status = HTTP_200_OK
                /\ out.body.username = i.username

\* A session that outlived a later login of its user, the logout of that later
\* session, and a submission
C5_Witness ==
    \E i, j \in issued :
        /\ i.username = j.username
        /\ i.token.iat < j.token.iat
        /\ j.token \in loggedOut
        /\ i.token \notin loggedOut
        /\ results # << >>
        /\ resp.op = "me" /\ resp.status = HTTP_200_OK /\ resp.body.username = i.username

(* C6: a registration whose username or email is already taken is answered *)
(* 400 and leaves the users table as it was; any other registration adds   *)
(* exactly one row. No two rows ever share a username or an email.         *)
C6_RegisterRejectsDuplicates ==
    /\ [][resp'.op = "register" =>
          \A u \in Usernames, e \in Emails :
            Register(u, e, ChosenPassword) =>
                IF \E r \in Range(users) : r.username = u \/ r.email = e
                THEN /\ resp'.status = HTTP_400_BAD_REQUEST
                     /\ users' = users
                ELSE /\ resp'.status = HTTP_201_CREATED
                     /\ Len(users') = Len(users) + 1
                     /\ SubSeq(users', 1, Len(users)) = users
                     /\ users'[Len(users')].username = u
                     /\ users'[Len(users')].email = e]_vars
    /\ [](\A i, j \in DOMAIN users :
            i # j => /\ users[i].username # users[j].username
                     /\ users[i].email # users[j].email)

\* A new username with a taken email is turned away
C6_Witness ==
    /\ Len(users) = 1
    /\ resp = Response("register", HTTP_400_BAD_REQUEST, "Email already exists", NoBody)

(* C7: a login with an unknown username and a login with a known username  *)
(* and a wrong password get the same answer, 401 "Invalid credentials", and *)
(* neither adds a row to the tokens table.                                  *)
C7_LoginFailuresAlike ==
    [][resp'.op = "login" =>
       \A u \in Usernames, p \in Passwords :
          (/\ \/ \A r \in Range(users) : r.username # u
              \/ \E r \in Range(users) : r.username = u /\ r.password_hash # hashpw(p)
           /\ Login(u, p))
          => /\ resp' = Response("login", HTTP_401_UNAUTHORIZED, "Invalid credentials", NoBody)
             /\ tokens' = tokens]_vars

\* A refused login where one username exists and the other does not, with a
\* session of the existing user in the table
C7_Witness ==
    /\ resp = Response("login", HTTP_401_UNAUTHORIZED, "Invalid credentials", NoBody)
    /\ Len(users) = 1
    /\ Len(tokens) = 1

\* The three failure cases of the token check
NoActiveRow(token) == \A i \in RowsWithToken(token) : tokens[i].is_revoked
BadSignature(token) == ~NoActiveRow(token) /\ token.key # JWT_SECRET
SubjectUnresolved(token) ==
    /\ ~NoActiveRow(token)
    /\ token.key = JWT_SECRET
    /\ \A j \in DOMAIN users : users[j].id # token.sub

C9_LogoutRevokesMatchingRows ==
    [][\A t \in ServiceTokens :
          LogoutUser(t) =>
             /\ DOMAIN tokens' = DOMAIN tokens
             /\ \A i \in DOMAIN tokens :
                   IF i \in RowsWithToken(t)
                   THEN /\ tokens'[i].is_revoked
                        /\ tokens'[i].id = tokens[i].id
                        /\ tokens'[i].user_id = tokens[i].user_id
                        /\ tokens'[i].token = tokens[i].token
                   ELSE tokens'[i] = tokens[i]
             /\ UNCHANGED <<provisioned, receipts, inflight, users, questions, results, responses>>
             /\ IF RowsWithToken(t) = {}
                THEN resp'.status = HTTP_404_NOT_FOUND /\ tokens' = tokens
                ELSE resp'.status = HTTP_200_OK]_vars

\* One session revoked next to another that stays open
C9_Witness ==
    /\ resp = Response("logout_user", HTTP_200_OK, "Successfully logged out", NoBody)
    /\ \E i, j \in DOMAIN tokens :
          /\ tokens[i].token \in loggedOut /\ tokens[i].is_revoked
          /\ ~tokens[j].is_revoked

(* C10 as stated: POST /auth/logout answers 200 for a valid token, 401 for *)
(* an already revoked one, and 404 for a token no row holds.               *)
C10_UnknownTokenNotFound ==
    [][resp'.op = "logout" =>
       \A t \in BearerTokens :
          Logout(t) =>
             /\ ValidToken(t) => resp'.status = HTTP_200_OK
             /\ (RowsWithToken(t) # {} /\ NoActiveRow(t)) => Unauthorized(resp')
             /\ RowsWithToken(t) = {} => resp'.status = HTTP_404_NOT_FOUND]_vars

(* C10: POST /auth/logout answers 200 for a valid token, and 401 both for *)
(* an already revoked token and for a token no row holds.                 *)
C10_LogoutRouteStatus ==
    [][resp'.op = "logout" =>
       \A t \in BearerTokens :
          Logout(t) =>
             /\ ValidToken(t) => resp'.status = HTTP_200_OK
             /\ (RowsWithToken(t) # {} /\ NoActiveRow(t)) => Unauthorized(resp')
             /\ RowsWithToken(t) = {} =>
                   resp' = Response("logout", HTTP_401_UNAUTHORIZED,
                                    "Invalid or revoked token", NoBody)]_vars

\* A logout refused while the only stored session stays open: the request
\* carried a token no row holds
C10_Witness ==
    /\ resp = Response("logout", HTTP_401_UNAUTHORIZED, "Invalid or revoked token", NoBody)
    /\ tokens # << >>
    /\ \A i \in DOMAIN tokens : ~tokens[i].is_revoked

(* C11: the tokens table only grows, and only by a successful login, whose *)
(* row is not revoked; an existing row is changed only by a logout, and only *)
(* in is_revoked, from false to true.                                        *)
C11_TokenRowsOnlyGrow ==
    [][tokens' # tokens =>
          /\ Len(tokens') >= Len(tokens)
          /\ \A i \in DOMAIN tokens :
                /\ tokens'[i].id = tokens[i].id
                /\ tokens'[i].user_id = tokens[i].user_id
                /\ tokens'[i].token = tokens[i].token
                /\ tokens[i].is_revoked => tokens'[i].is_revoked
                /\ tokens'[i] # tokens[i] => resp'.op = "logout"
          /\ Len(tokens') > Len(tokens) =>
                /\ Len(tokens') = Len(tokens) + 1
                /\ ~tokens'[Len(tokens')].is_revoked
                /\ resp'.op = "login" /\ resp'.status = HTTP_200_OK
                /\ resp'.body.access_token = tokens'[Len(tokens')].token]_vars

\* A second login of a user whose first session was logged out: the revoked row
\* is still there
C11_Witness ==
    /\ resp.op = "login" /\ resp.status = HTTP_200_OK
    /\ Len(tokens) = 2
    /\ tokens[1].is_revoked
    /\ tokens[1].user_id = tokens[2].user_id

\* A request to one of the protected routes, carrying the token; a response
\* names the route it answers
ProtectedRequest(token) ==
    \/ resp'.op = "logout" /\ Logout(token)
    \/ resp'.op = "me" /\ GetMe(token)
    \/ resp'.op = "exams" /\ ListExams(token)
    \/ resp'.op = "exam" /\ \E e \in ExamIdStrings : GetExam(token, e)
    \/ /\ resp'.op = "submit"
       /\ Attempt(token, ScenarioSubmission.exam_id, ScenarioSubmission.answers)
    \/ resp'.op = "history" /\ \E o \in TableOrders(results) : HistoryMe(token, o)
    \/ /\ resp'.op = "history_detail"
       /\ \E e \in ExamIdStrings, o \in TableOrders(results) : HistoryDetail(token, e, o)

(* C12: every protected route runs the token check first: a request whose  *)
(* token fails the check is answered 401 without a body, evaluates nothing *)
(* and writes no result, no question response and no token row.           *)
C12_TokenCheckFirst ==
    [][\A t \in BearerTokens :
          (~ValidToken(t) /\ ProtectedRequest(t)) =>
             /\ Unauthorized(resp')
             /\ resp'.body = NoBody
             /\ UNCHANGED <<provisioned, receipts, inflight, users, tokens, results, responses>>]_vars

\* A submission refused for its token, next to a revoked session and an earlier
\* result
C12_Witness ==
    /\ resp.op = "submit" /\ Unauthorized(resp)
    /\ \E i \in DOMAIN tokens : tokens[i].is_revoked
    /\ Len(results) = 1

\* The response rows a step has added
NewResponses == {responses'[i] : i \in (DOMAIN responses') \ (DOMAIN responses)}

(* C13: a successful submission adds exactly one result row, holding the four *)
(* aggregates computed from the rows it also adds: exactly one question       *)
(* response row per question of the exam, each carrying the id the store gave *)
(* the result. The returned result has the same id, aggregates and            *)
(* per-question correctness.                                                  *)
C13_OneResultOneRowPerQuestion ==
    [][(resp'.op = "submit" /\ resp'.status = HTTP_200_OK) =>
          LET r == results'[Len(results')]
              qs == QuestionsOf(r.exam_id)
          IN  /\ Len(results') = Len(results) + 1
              /\ SubSeq(results', 1, Len(results)) = results
              /\ \A i \in DOMAIN results : results[i].id # r.id
              /\ SubSeq(responses', 1, Len(responses)) = responses
              /\ Len(responses') = Len(responses) + Cardinality(qs)
              /\ \A p \in NewResponses : p.result_id = r.id
              /\ \A q \in qs : Cardinality({p \in NewResponses : p.question_id = q.id}) = 1
              /\ r.correct_answers = Cardinality({p \in NewResponses : p.is_correct})
              /\ r.wrong_answers = Cardinality({p \in NewResponses : ~p.is_correct})
              /\ r.total_marks = SumOfMarks(qs)
              /\ r.obtained_marks =
                    SumOfMarks({q \in qs : \E p \in NewResponses :
                                              p.question_id = q.id /\ p.is_correct})
              /\ resp'.body.id = ToStr(r.id)
              /\ resp'.body.total_marks = r.total_marks
              /\ resp'.body.obtained_marks = r.obtained_marks
              /\ resp'.body.correct_answers = r.correct_answers
              /\ resp'.body.wrong_answers = r.wrong_answers
              /\ Len(resp'.body.question_results) = Cardinality(qs)
              /\ \A p \in NewResponses :
                    \E k \in DOMAIN resp'.body.question_results :
                        /\ resp'.body.question_results[k].question_id = ToStr(p.question_id)
                        /\ resp'.body.question_results[k].is_correct = p.is_correct]_vars

\* A scored submission that left a question out: its row is written all the same
C13_Witness ==
    /\ Submitted
    /\ Len(results) = 1
    /\ Len(responses) = MaxQuestions
    /\ \E i \in DOMAIN responses : responses[i].selected_option = NoOption

\* The exam a submitted exam_id names, if it is an integer
NoSuchExam(exam_id) ==
    /\ ParseInt(exam_id) # ValueError
    /\ \A i \in DOMAIN exams : exams[i].id # ParseInt(exam_id)

ExamWithoutQuestions(exam_id) ==
    /\ \E i \in DOMAIN exams : exams[i].id = ParseInt(exam_id)
    /\ QuestionsOf(ParseInt(exam_id)) = {}

(* C14: a submission for an exam id that names no exam, or for an exam that *)
(* has no questions, fails with 404 and writes no result row and no         *)
(* question response row.                                                   *)
C14_MissingExamNotFound ==
    [][(resp'.op = "submit"
        /\ (NoSuchExam(submission.exam_id) \/ ExamWithoutQuestions(submission.exam_id))) =>
          /\ resp'.status = HTTP_404_NOT_FOUND
          /\ resp'.detail = IF NoSuchExam(submission.exam_id) THEN "Exam not found"
                            ELSE "No questions found for exam"
          /\ resp'.body = NoBody
          /\ UNCHANGED <<provisioned, receipts, inflight, results, responses>>]_vars

\* An answer submitted for the exam that has no questions
C14_Witness ==
    /\ resp = Response("submit", HTTP_404_NOT_FOUND, "No questions found for exam", NoBody)
    /\ ExamWithoutQuestions(submission.exam_id)
    /\ submission.answers # << >>
    /\ results = << >>

\* The answers of a submission whose question id is an integer
WellFormedAnswers(answers) ==
    SelectSeq(answers, LAMBDA a : ParseInt(a.question_id) # ValueError)

(* C15 as stated: a submission whose exam_id or one of whose question ids is *)
(* not an integer is answered 400 and nothing is persisted.                  *)
C15_MalformedIdsBadRequest ==
    [][(resp'.op = "submit"
        /\ \/ ParseInt(submission.exam_id) = ValueError
           \/ WellFormedAnswers(submission.answers) # submission.answers) =>
          /\ resp'.status = HTTP_400_BAD_REQUEST
          /\ UNCHANGED <<provisioned, receipts, inflight, results, responses>>]_vars

(* C15: a submission whose exam_id is not an integer is answered 400 and    *)
(* nothing is persisted, and no other submission is answered 400: an answer *)
(* whose question_id is not an integer is skipped, and the submission has   *)
(* the outcome it has without that answer.                                  *)
C15_MalformedExamIdBadRequest ==
    [][resp'.op = "submit" =>
          /\ ParseInt(submission.exam_id) = ValueError =>
                /\ resp'.status = HTTP_400_BAD_REQUEST
                /\ resp'.detail = "Invalid ID format. IDs must be integers"
                /\ UNCHANGED <<provisioned, receipts, inflight, results, responses>>
          /\ ParseInt(submission.exam_id) # ValueError =>
                LET without == submit_exam(users, tokens, questions, results, responses,
                                           now, EvalToken, submission.exam_id,
                                           WellFormedAnswers(submission.answers))
                IN  /\ resp'.status # HTTP_400_BAD_REQUEST
                    /\ resp' = Response("submit", without.status, without.detail,
                                        without.body)
                    /\ results' = without.results
                    /\ responses' = without.responses]_vars

\* A malformed question id in front of a right answer, which is counted
C15_Witness ==
    /\ Submitted
    /\ Len(submission.answers) = 2
    /\ ParseInt(submission.answers[1].question_id) = ValueError
    /\ ParseInt(submission.answers[2].question_id) # ValueError
    /\ results[1].correct_answers = 1

\* An answer for a question that is not a question of the exam
ForeignAnswer(exam_id, answer) ==
    /\ ParseInt(answer.question_id) # ValueError
    /\ \A q \in QuestionsOf(ParseInt(exam_id)) : q.id # ParseInt(answer.question_id)

(* C16: answers for questions that do not belong to the exam are ignored: a *)
(* submission has the outcome, the aggregates and the response rows it has  *)
(* without them, and every response row written is for a question of the    *)
(* exam.                                                                    *)
C16_ForeignAnswersIgnored ==
    [][(resp'.op = "submit" /\ ParseInt(submission.exam_id) # ValueError) =>
          LET own == SelectSeq(submission.answers,
                               LAMBDA a : ~ForeignAnswer(submission.exam_id, a))
              without == submit_exam(users, tokens, questions, results, responses,
                                     now, EvalToken, submission.exam_id, own)
          IN  /\ resp' = Response("submit", without.status, without.detail, without.body)
              /\ results' = without.results
              /\ responses' = without.responses
              /\ \A p \in NewResponses :
                    \E q \in QuestionsOf(ParseInt(submission.exam_id)) :
                        q.id = p.question_id]_vars

\* A submission for exam 1 scored with an answer for the question of exam 2 in it
C16_Witness ==
    /\ Submitted
    /\ submission.exam_id = "1"
    /\ \E i \in DOMAIN submission.answers :
          /\ ForeignAnswer("1", submission.answers[i])
          /\ ParseInt(submission.answers[i].question_id) = ForeignQuestion.id
    /\ results[1].correct_answers = 1

\* A request leaves evaluate_exam before its last response row is written
Interrupted(r) ==
    /\ inflight[r].stage = "writing"
    /\ inflight[r].pending # << >>
    /\ inflight'[r].stage = "idle"

(* C17: the result row and the response rows are not written atomically: when *)
(* a store write fails or the request is aborted after the result row is      *)
(* inserted and before the last response row is, the result row and the rows  *)
(* written so far stay (nothing is rolled back) and the caller gets an error: *)
(* 500, or no response at all.                                                *)
C17_NoRollback ==
    [][\A r \in Requests :
          Interrupted(r) =>
             /\ results' = results
             /\ responses' = responses
             /\ \E i \in DOMAIN results' : ToStr(results'[i].id) = inflight[r].result.id
             /\ resp'.status # HTTP_200_OK
             /\ resp'.op = "submit" =>
                   /\ resp'.status = HTTP_500_INTERNAL_SERVER_ERROR
                   /\ resp'.detail = "Error evaluating exam"]_vars

\* A failed write was answered 500 and left a result with some, not all, of its rows
C17_Witness ==
    /\ resp.op = "submit"
    /\ resp.status = HTTP_500_INTERNAL_SERVER_ERROR
    /\ \A r \in Requests : inflight[r].stage = "idle"
    /\ \E i \in DOMAIN results :
          /\ RowsOf(results[i].id) # {}
          /\ Cardinality(RowsOf(results[i].id))
                < Cardinality(QuestionsOf(results[i].exam_id))

\* The response rows of table ptable that reference a result
RowsIn(ptable, result_id) == {p \in Range(ptable) : p.result_id = result_id}

(* C18: several attempts are permitted: a submission of a user for an exam is *)
(* accepted whatever results exist or are being written for the same user and *)
(* exam; sequential or interleaved, each gets a result row of its own with an *)
(* id no other row has, never replaces a row, writes response rows that       *)
(* reference its own result only, and succeeds with one row per question.     *)
C18_AttemptsKeptApart ==
    [][/\ \A i \in DOMAIN results : i \in DOMAIN results' /\ results'[i] = results[i]
       /\ \A i \in DOMAIN responses : i \in DOMAIN responses' /\ responses'[i] = responses[i]
       /\ \A i, j \in DOMAIN results' : i # j => results'[i].id # results'[j].id
       /\ \A p \in NewResponses :
             \E r \in Requests :
                /\ inflight[r].stage = "writing"
                /\ inflight'[r].pending # inflight[r].pending
                /\ ToStr(p.result_id) = inflight[r].result.id
       /\ \A r \in Requests :
             /\ (/\ inflight[r].stage = "idle"
                 /\ BeginSubmit(r, EvalToken, ScenarioSubmission.exam_id,
                                ScenarioSubmission.answers))
                  => /\ inflight'[r].stage = "writing"
                     /\ Len(results') = Len(results) + 1
                     /\ results'[Len(results')].user_id = EvalUser.id
                     /\ ToStr(results'[Len(results')].id) = inflight'[r].result.id
             /\ (inflight[r].stage = "writing" /\ inflight[r].pending = << >>
                 /\ inflight'[r].stage = "idle")
                  => /\ resp' = Response("submit", HTTP_200_OK, "", inflight[r].result)
                     /\ \A q \in QuestionsOf(ParseInt(inflight[r].result.exam_id)) :
                           Cardinality({p \in RowsIn(responses',
                                                   ParseInt(inflight[r].result.id)) :
                                           p.question_id = q.id}) = 1]_vars

\* Two attempts of one user at one exam were written interleaved and both are complete
C18_Witness ==
    /\ Submitted
    /\ \A r \in Requests : inflight[r].stage = "idle"
    /\ Len(results) >= 2
    /\ results[1].user_id = results[2].user_id
    /\ results[1].exam_id = results[2].exam_id
    /\ results[1].id # results[2].id
    /\ \A i \in 1..2 :
          Cardinality(RowsOf(results[i].id)) = Cardinality(QuestionsOf(results[i].exam_id))
    /\ \E i, j \in DOMAIN responses :
          i < j /\ responses[i].result_id = results[2].id
                /\ responses[j].result_id = results[1].id

(* C19: rows of user_exam_results and user_question_responses are immutable: *)
(* no request (register, login, logout, token check, exam listing, exam      *)
(* delivery, a later submission, a history lookup) changes or removes a row  *)
(* that is there.                                                            *)
C19_RowsImmutable ==
    [][/\ \A i \in DOMAIN results : i \in DOMAIN results' /\ results'[i] = results[i]
       /\ \A i \in DOMAIN responses :
             i \in DOMAIN responses' /\ responses'[i] = responses[i]]_vars

\* A user looked a result up after a second attempt at the same exam, a second later
C19_Witness ==
    /\ resp.op = "history_detail"
    /\ resp.status = HTTP_200_OK
    /\ \E i, j \in DOMAIN results :
          /\ i < j
          /\ results[i].user_id = results[j].user_id
          /\ results[i].exam_id = results[j].exam_id
          /\ results[i].completed_at < results[j].completed_at
          /\ Cardinality(RowsOf(results[i].id)) = Cardinality(QuestionsOf(results[i].exam_id))

(* C20: the history of a user lists the results most recent first: of two   *)
(* results in the list returned, the one completed later comes earlier.     *)
C20_HistoryMostRecentFirst ==
    (resp.op = "history" /\ resp.status = HTTP_200_OK) =>
        \A i, j \in DOMAIN resp.body.items :
            resp.body.items[i].completed_at > resp.body.items[j].completed_at => i < j

(* C21: every entry of a user's history carries the name of its exam: an    *)
(* entry whose exam exists has an exam_name, that of the exam it names.     *)
C21_HistoryCarriesExamName ==
    (resp.op = "history" /\ resp.status = HTTP_200_OK) =>
        \A i \in DOMAIN resp.body.items :
            \A k \in DOMAIN exams :
                ToStr(exams[k].id) = resp.body.items[i].exam_id =>
                    /\ "exam_name" \in DOMAIN resp.body.items[i]
                    /\ resp.body.items[i].exam_name = exams[k].exam_name

(* C22: a history detail asked by a user for an exam the user has no result *)
(* for is answered normally (200) with the status "not_found", whether the   *)
(* exam exists or not and whoever else has results for it, and writes nothing. *)
C22_NotTakenIsNormal ==
    /\ [](\A t \in BearerTokens, e \in ExamIdStrings :
            (/\ ValidToken(t)
             /\ ParseInt(e) # ValueError
             /\ \A i \in DOMAIN results :
                   ~(results[i].user_id = t.sub /\ results[i].exam_id = ParseInt(e)))
               => \A o \in TableOrders(results) :
                     LET out == get_exam_history(provisioned, users, tokens, questions, results,
                                                 responses, t, e, o)
                     IN  /\ out.status = HTTP_200_OK
                         /\ out.body.kind = "history_detail"
                         /\ out.body.status = "not_found"
                         /\ out.body.exam_id = e)
    /\ [][resp'.op = "history_detail" =>
             UNCHANGED <<users, tokens, questions, results, responses>>]_vars

\* bob asked for exam 1, which only alice has taken, and was told "not_found"
C22_Witness ==
    /\ resp.op = "history_detail"
    /\ resp.status = HTTP_200_OK
    /\ resp.body.status = "not_found"
    /\ resp.body.exam_id = "1"
    /\ results # << >>
    /\ \A i \in DOMAIN results : results[i].exam_id = 1 /\ results[i].user_id = 1
    /\ \E i \in DOMAIN tokens : tokens[i].user_id = 2 /\ ~tokens[i].is_revoked

\* The entry of a sequence of per-question records that is about a question
EntryFor(records, question_id) ==
    records[CHOOSE i \in DOMAIN records : records[i].question_id = ToStr(question_id)]

\* The user has exactly one result for the exam
SingleAttempt(user_id, exam_id) ==
    Cardinality({i \in DOMAIN results :
                    results[i].user_id = user_id /\ results[i].exam_id = exam_id}) = 1

\* The history detail of the receipt's user and exam agrees with the receipt; the
\* selected options are compared as they are (strict) or with null read as ""
RoundTrip(receipt, strict) ==
    SingleAttempt(receipt.user_id, ParseInt(receipt.exam_id)) =>
        \A t \in StoredTokens, o \in TableOrders(results) :
            (ValidToken(t) /\ t.sub = receipt.user_id) =>
                LET out == get_exam_history(provisioned, users, tokens, questions, results, responses,
                                            t, receipt.exam_id, o)
                IN  /\ out.status = HTTP_200_OK
                    /\ out.body.status = "success"
                    /\ out.body.total_marks = receipt.total_marks
                    /\ out.body.score = receipt.obtained_marks
                    /\ out.body.correct_answers = receipt.correct_answers
                    /\ out.body.wrong_answers = receipt.wrong_answers
                    /\ \A q \in QuestionsOf(ParseInt(receipt.exam_id)) :
                          LET told == EntryFor(receipt.question_results, q.id)
                              kept == EntryFor(out.body.questions, q.id)
                          IN  /\ IF strict THEN kept.user_answer = told.selected_option
                                  ELSE OptionOrEmpty(kept.user_answer) = told.selected_option
                              /\ kept.is_correct = told.is_correct

(* C23 as stated: after a successful submission of a user who has no other  *)
(* attempt at the exam, the history detail reports the aggregates of the     *)
(* submit response and, for every question of the exam, the very selected    *)
(* option and is_correct of the submit response.                             *)
C23_HistoryRepeatsSubmission ==
    \A i \in DOMAIN receipts : RoundTrip(receipts[i], TRUE)

(* C23, amended: as above, but a question left unanswered is reported as the *)
(* empty string by the submit response and as null by the history detail;    *)
(* for an answered question the two report the same option.                  *)
C23_HistoryRepeatsUpToEmpty ==
    \A i \in DOMAIN receipts : RoundTrip(receipts[i], FALSE)

\* alice, who left a question unanswered, looked her result up after bob took the exam
C23_Witness ==
    /\ resp.op = "history_detail"
    /\ resp.status = HTTP_200_OK
    /\ resp.body.status = "success"
    /\ Len(results) = 2
    /\ results[1].user_id = ServiceUser2.id
    /\ \E i \in DOMAIN resp.body.questions : resp.body.questions[i].user_answer = NoOption
    /\ \E i \in DOMAIN receipts :
          /\ receipts[i].user_id = ServiceUser1.id
          /\ receipts[i].obtained_marks = resp.body.score
          /\ \E k \in DOMAIN receipts[i].question_results :
                receipts[i].question_results[k].selected_option = ""

\* The questions table with one question answered by another option
Rekeyed(i, option) == [questions EXCEPT ![i].correct_option = option]

(* C24: exam delivery discloses no answer: every question delivered has its *)
(* text, its four options and its marks, and no field that holds the correct *)
(* option; the response is the same whatever the correct options are.        *)
C24_DeliveryHidesAnswers ==
    /\ [](\A t \in BearerTokens, e \in ExamIdStrings :
            \A i \in DOMAIN questions, option \in Options :
                route_get_exam_with_questions(users, tokens, Rekeyed(i, option), t, e)
                    = route_get_exam_with_questions(users, tokens, questions, t, e))
    /\ [][(resp'.op = "exam" /\ resp'.status = HTTP_200_OK) =>
             /\ \A q \in QuestionsOf(ParseInt(resp'.body.id)) :
                   \E k \in DOMAIN resp'.body.questions :
                      LET sent == resp'.body.questions[k]
                      IN  /\ sent.id = ToStr(q.id)
                          /\ sent.question_text = q.question_text
                          /\ <<sent.option_a, sent.option_b, sent.option_c, sent.option_d>>
                                = <<q.option_a, q.option_b, q.option_c, q.option_d>>
             /\ \A k \in DOMAIN resp'.body.questions :
                   DOMAIN resp'.body.questions[k] =
                      {"id", "question_text", "option_a", "option_b", "option_c",
                       "option_d", "marks"}]_vars

\* Exam 1 was delivered with all its questions
C24_Witness ==
    /\ resp.op = "exam"
    /\ resp.status = HTTP_200_OK
    /\ resp.body.id = "1"
    /\ Len(resp.body.questions) = MaxQuestions

\* obtained / total x 100 to two decimals, in hundredths: the hundredth nearest to it
TwoDecimals(obtained, total) ==
    CHOOSE h \in 0..10000 :
        /\ 2 * (h * total - 10000 * obtained) <= total
        /\ 2 * (10000 * obtained - h * total) <= total

\* The percentage the last response reports, where it reports one
ReportedPercentages ==
    IF resp.op = "history" THEN {resp.body.items[i].percentage : i \in DOMAIN resp.body.items}
    ELSE {resp.body.percentage}

(* C25: wherever a percentage is computed from a result (submit response,  *)
(* history summary, history detail, analysis context) it is obtained_marks  *)
(* / total_marks x 100 rounded to two decimals, and it is 0, with no fault, *)
(* when total_marks is 0.                                                    *)
C25_PercentageEverywhere ==
    resp.op \in {"submit", "history", "history_detail", "analysis"} =>
        /\ resp.status = HTTP_200_OK
        /\ ReportedPercentages =
              {IF results[1].total_marks = 0 THEN 0
               ELSE TwoDecimals(results[1].obtained_marks, results[1].total_marks)}

\* The response says that the history is not available, and is not an error
SoftNotAvailable(r) ==
    /\ r.status = HTTP_200_OK
    /\ r.body.kind # "none"
    /\ "status" \in DOMAIN r.body
    /\ r.body.status = "not_available"

\* C26: when the table of results does not exist, an authenticated history lookup,
\* list or detail, is answered with a soft not-available status and not an error
C26_MissingRelationIsSoft ==
    (/\ resp.op \in {"history", "history_detail"}
     /\ resp.status # HTTP_401_UNAUTHORIZED
     /\ "user_exam_results" \notin provisioned)
    => SoftNotAvailable(resp)

\* C27: registrations that interleave between their store calls never leave two
\* users with one username or one email, and every registration ends created
\* (201) or refused as a duplicate (400), never with an internal error
C27_RacingRegisterRefusedAsDuplicate ==
    /\ \A i, j \in DOMAIN users :
          (users[i].username = users[j].username \/ users[i].email = users[j].email)
          => i = j
    /\ resp.op = "register" => resp.status \in {HTTP_201_CREATED, HTTP_400_BAD_REQUEST}

\* An answer after which the list holds another answer for the same question
Superseded(answers, i) ==
    /\ ParseInt(answers[i].question_id) # ValueError
    /\ \E j \in (i + 1)..Len(answers) :
          ParseInt(answers[j].question_id) = ParseInt(answers[i].question_id)

RECURSIVE LastAnswers(_, _)
\* The list without its superseded answers, from position i on
LastAnswers(answers, i) ==
    IF i > Len(answers) THEN << >>
    ELSE (IF Superseded(answers, i) THEN << >> ELSE << answers[i] >>)
         \o LastAnswers(answers, i + 1)

\* C28: a submission with several answers for one question is evaluated as the
\* same submission without the earlier ones: the same aggregates and the same
\* response rows, with one row for the question, holding the last answer's option
C28_LastAnswerWins ==
    (Submitted /\ \E i \in DOMAIN submission.answers : Superseded(submission.answers, i))
    => LET alone == evaluate_exam(questions, << >>, << >>, now, EvalUser,
                                  submission.exam_id, LastAnswers(submission.answers, 1))
       IN  /\ Len(results) = 1
           /\ Aggregates(results[1]) = Aggregates(alone.results[1])
           /\ responses = alone.responses
           /\ resp.body.question_results
                 = SubmitResponseBody(alone.result).question_results
           /\ \A q \in Range(questions) :
                 (q.exam_id = results[1].exam_id /\ Cardinality(AnswersFor(q.id)) > 1)
                 => \E i \in DOMAIN responses :
                       /\ responses[i].question_id = q.id
                       /\ responses[i].selected_option = LastSelected(q.id)
                       /\ responses[i].is_correct = (LastSelected(q.id) = q.correct_option)
                       /\ \A j \in DOMAIN responses :
                             responses[j].question_id = q.id => j = i

\* Question 1 answered right and then, under another spelling, wrong: the row
\* holds the second option and nothing is obtained
C28_Witness ==
    /\ Submitted
    /\ submission.answers = << [question_id |-> "1", selected_option |-> "A"],
                               [question_id |-> "01", selected_option |-> "B"] >>
    /\ responses[1].selected_option = "B"
    /\ results[1].obtained_marks = 0

\* The results of a user, and the response rows of those results
OwnResults(user_id) == SelectSeq(results, LAMBDA r : r.user_id = user_id)

OwnResponses(user_id) ==
    SelectSeq(responses,
              LAMBDA p : \E i \in DOMAIN results :
                            results[i].id = p.result_id /\ results[i].user_id = user_id)

\* What the history list may answer to a token, over a table of results
HistoryListOf(token, rtable) ==
    {get_my_exam_history(provisioned, users, tokens, rtable, token, o) :
        o \in TableOrders(rtable)}

\* What the history detail may answer to a token, over tables of results and responses
HistoryDetailOf(token, exam_id, rtable, ptable) ==
    {get_exam_history(provisioned, users, tokens, questions, rtable, ptable,
                      token, exam_id, o) : o \in TableOrders(rtable)}

\* C29: the history list and the history detail answer a user from that user's
\* results and their response rows alone: every listed result is the user's, the
\* answers are those over a store without the other users' rows, and a submission
\* of another user leaves them as they were
C29_HistoryIsolated ==
    /\ [](\A k \in DOMAIN tokens :
            LET t == tokens[k].token
                u == tokens[k].user_id
            IN  /\ \A out \in HistoryListOf(t, results) :
                      \A i \in DOMAIN out.body.items : out.body.items[i].user_id = u
                /\ HistoryListOf(t, results) = HistoryListOf(t, OwnResults(u))
                /\ \A e \in ExamIdStrings :
                      HistoryDetailOf(t, e, results, responses)
                          = HistoryDetailOf(t, e, OwnResults(u), OwnResponses(u)))
    /\ [][\A k \in DOMAIN tokens :
             LET t == tokens[k].token
                 u == tokens[k].user_id
             IN  (/\ Len(results') = Len(results) + 1
                  /\ results'[Len(results')].user_id # u)
                 => /\ HistoryListOf(t, results)' = HistoryListOf(t, results)
                    /\ \A e \in ExamIdStrings :
                          HistoryDetailOf(t, e, results, responses)'
                              = HistoryDetailOf(t, e, results, responses)]_vars

\* Both users hold a result and the list answers one of them with one result
C29_Witness ==
    /\ Len(results) = 2
    /\ results[1].user_id # results[2].user_id
    /\ resp.op = "history"
    /\ resp.status = HTTP_200_OK
    /\ Len(resp.body.items) = 1

\* C30: the token check and the evaluation are two steps.  A request that passed
\* the check completes with a result for its user whatever happens to its token
\* in between, a logout included; a request is admitted only with a token no
\* logout has succeeded on, and only admitted requests write results.
C30_CheckThenActNotAtomic ==
    /\ [][\A r \in Requests :
             (inflight[r].stage = "authenticated" /\ inflight'[r].stage = "idle")
             => /\ resp'.op = "submit"
                /\ resp'.status = HTTP_200_OK
                /\ Len(results') = Len(results) + 1
                /\ results'[Len(results')].user_id = inflight[r].current_user.id]_vars
    /\ [][\A r \in Requests :
             (inflight[r].stage = "idle" /\ inflight'[r].stage = "authenticated")
             => inflight'[r].token \notin loggedOut]_vars
    /\ [][results' # results =>
             \E r \in Requests :
                inflight[r].stage = "authenticated" /\ inflight'[r].stage = "idle"]_vars

\* A submission has just completed for a user none of whose tokens is still active
C30_Witness ==
    /\ Submitted
    /\ loggedOut # {}
    /\ \A i \in DOMAIN tokens :
          tokens[i].user_id = resp.body.user_id
          => tokens[i].is_revoked /\ tokens[i].token \in loggedOut

====
